---- MODULE Spec2Model ----
(***************************************************************************)
(* Model of khanagamamad-droid/routine: the SQLite schema manager          *)
(* (src/src/core/database.py, class RoutineDatabase) and the pydantic      *)
(* validation records (src/src/core/models.py).                            *)
(*                                                                         *)
(* The store is the SQLite file at db_path.  Only the key columns of each  *)
(* table are modelled (primary key, foreign-key columns, columns under a   *)
(* UNIQUE constraint); the remaining columns carry no constraint that any  *)
(* property below depends on.                                              *)
(***************************************************************************)
EXTENDS Integers, Sequences, FiniteSets, TLC

VARIABLES store,      \* content of the database file at db_path
          instance,   \* the fields of the RoutineDatabase object (or NoInstance)
          last,       \* what the last operation did: value returned / exception raised, connection calls
          nops,       \* number of operations run so far (bounded)
          call,       \* validation layer: arguments of the pending construction
          built,      \* validation layer: outcome of the construction
          clock,      \* validation layer: number of datetime.utcnow() readings taken so far
          rebuilt,    \* validation layer: outcome of reconstructing a record from its dict()
          crashed     \* history: an initialization of a new store has failed

vars == <<store, instance, last, nops, call, built, clock, rebuilt, crashed>>

----------------------------------------------------------------------------
(* Bounds *)

MaxId == 2          \* largest row id, and largest id value passed as a parameter
MaxOps == 2         \* number of operations in one behaviour

----------------------------------------------------------------------------
(* Schema: create_schema, database.py 51-192 *)

\* SQL NULL in an integer column (row ids start at 1)
Null == 0

RequiredTables ==
  {"users", "routines", "tasks", "reminders", "routine_logs",
   "user_preferences", "task_categories", "task_category_mapping"}

\* tables whose id is INTEGER PRIMARY KEY AUTOINCREMENT
AutoincrementTables == RequiredTables \ {"task_category_mapping"}

\* SQLite keeps the AUTOINCREMENT counters in its own table, created with the
\* first AUTOINCREMENT table; it is listed in sqlite_master with type='table'.
SqliteSequence == "sqlite_sequence"

\* the order of the CREATE TABLE statements in create_schema
TableOrder ==
  <<"users", "routines", "tasks", "reminders", "routine_logs",
    "user_preferences", "task_categories", "task_category_mapping">>

\* modelled columns of each table besides the row id (all are NOT NULL)
Columns(t) ==
  CASE t = "users" -> {"username", "email"}
    [] t = "routines" -> {"user_id"}
    [] t = "tasks" -> {"routine_id", "user_id"}
    [] t = "reminders" -> {"task_id", "user_id"}
    [] t = "routine_logs" -> {"routine_id", "user_id"}
    [] t = "user_preferences" -> {"user_id"}
    [] t = "task_categories" -> {"user_id", "name"}
    [] t = "task_category_mapping" -> {"task_id", "category_id"}

\* FOREIGN KEY (col) REFERENCES parent(id) ON DELETE CASCADE
ForeignKeys(t) ==
  CASE t = "users" -> {}
    [] t = "routines" -> {<<"user_id", "users">>}
    [] t = "tasks" -> {<<"routine_id", "routines">>, <<"user_id", "users">>}
    [] t = "reminders" -> {<<"task_id", "tasks">>, <<"user_id", "users">>}
    [] t = "routine_logs" -> {<<"routine_id", "routines">>, <<"user_id", "users">>}
    [] t = "user_preferences" -> {<<"user_id", "users">>}
    [] t = "task_categories" -> {<<"user_id", "users">>}
    [] t = "task_category_mapping" ->
         {<<"task_id", "tasks">>, <<"category_id", "task_categories">>}

\* the UNIQUE constraints of users alone
UniquesUsersOnly(t) == IF t = "users" THEN {{"username"}, {"email"}} ELSE {}

\* UNIQUE / composite PRIMARY KEY constraints, each a set of columns
Uniques(t) ==
  CASE t = "users" -> {{"username"}, {"email"}}
    [] t = "user_preferences" -> {{"user_id"}}
    [] t = "task_categories" -> {{"user_id", "name"}}
    [] t = "task_category_mapping" -> {{"task_id", "category_id"}}
    [] OTHER -> {}

\* _create_indexes, database.py 194-212: index name -> <<table, column>>
Indexes ==
  [idx_routines_user_id |-> <<"routines", "user_id">>,
   idx_tasks_routine_id |-> <<"tasks", "routine_id">>,
   idx_tasks_user_id |-> <<"tasks", "user_id">>,
   idx_tasks_status |-> <<"tasks", "status">>,
   idx_tasks_scheduled_date |-> <<"tasks", "scheduled_date">>,
   idx_reminders_task_id |-> <<"reminders", "task_id">>,
   idx_reminders_user_id |-> <<"reminders", "user_id">>,
   idx_reminders_is_sent |-> <<"reminders", "is_sent">>,
   idx_routine_logs_routine_id |-> <<"routine_logs", "routine_id">>,
   idx_routine_logs_execution_date |-> <<"routine_logs", "execution_date">>,
   idx_user_preferences_user_id |-> <<"user_preferences", "user_id">>,
   idx_task_categories_user_id |-> <<"task_categories", "user_id">>]

\* the order of the CREATE INDEX statements in _create_indexes
IndexOrder ==
  <<"idx_routines_user_id", "idx_tasks_routine_id", "idx_tasks_user_id", "idx_tasks_status",
    "idx_tasks_scheduled_date", "idx_reminders_task_id", "idx_reminders_user_id",
    "idx_reminders_is_sent", "idx_routine_logs_routine_id",
    "idx_routine_logs_execution_date", "idx_user_preferences_user_id",
    "idx_task_categories_user_id">>

\* sqlite3.connect(self.db_path) without "PRAGMA foreign_keys = ON":
\* SQLite parses the FOREIGN KEY clauses but does not enforce them.
foreign_keys == FALSE

----------------------------------------------------------------------------
(* The database file *)

NoFile ==
  [exists |-> FALSE, tables |-> {}, indexes |-> {},
   rows |-> [t \in RequiredTables |-> {}],
   seq |-> [t \in AutoincrementTables |-> 0]]

Max(S) == IF S = {} THEN 0 ELSE CHOOSE m \in S : \A x \in S : x <= m

RowIds(db, t) == {r.id : r \in db.rows[t]}

\* the rowid SQLite gives the next row of t: AUTOINCREMENT never reuses an id
\* (largest id ever used, kept in sqlite_sequence); a plain rowid table takes
\* the largest present rowid plus one
NextRowId(db, t) ==
  IF t \in AutoincrementTables
    THEN Max(RowIds(db, t) \cup {db.seq[t]}) + 1
    ELSE Max(RowIds(db, t)) + 1

\* DROP TABLE IF EXISTS t; CREATE TABLE t
CreateTableReplace(db, t) ==
  [db EXCEPT !.exists = TRUE,
             !.tables = @ \cup {t} \cup
                (IF t \in AutoincrementTables THEN {SqliteSequence} ELSE {}),
             !.rows[t] = {}]

\* CREATE TABLE IF NOT EXISTS t
CreateTable(db, t) ==
  IF t \in db.tables THEN db
  ELSE [db EXCEPT !.exists = TRUE,
                  !.tables = @ \cup {t} \cup
                     (IF t \in AutoincrementTables THEN {SqliteSequence} ELSE {})]

\* CREATE INDEX IF NOT EXISTS i ON table(column); the table must exist
CreateIndex(db, i) ==
  IF i \in db.indexes THEN db ELSE [db EXCEPT !.indexes = @ \cup {i}]

RECURSIVE CreateTables(_, _)
CreateTables(db, k) ==
  IF k = 0 THEN db ELSE CreateTable(CreateTables(db, k - 1), TableOrder[k])

RECURSIVE CreateIndexes(_, _)
CreateIndexes(db, todo) ==
  IF todo = {} THEN db
  ELSE LET i == CHOOSE x \in todo : TRUE
       IN CreateIndexes(CreateIndex(db, i), todo \ {i})

----------------------------------------------------------------------------
(* Statements run by cursor.execute(query, params) *)

NoExc == "none"
IntegrityError == "sqlite3.IntegrityError"       \* constraint violation
OperationalError == "sqlite3.OperationalError"   \* no such table, commit failure
KeyboardInterrupt == "KeyboardInterrupt"         \* a BaseException that is not an Exception

\* isinstance(e, Exception): what "except Exception" in get_connection catches
IsException(e) == e \in {IntegrityError, OperationalError}

Names == {"a", "b"}
IdValues == 1..MaxId
IntColumns == {"id", "user_id", "routine_id", "task_id", "category_id"}

\* values a caller passes for column c (an integer column may be given NULL)
ColumnValues(c) == IF c \in IntColumns THEN IdValues \cup {Null} ELSE Names

StmtResult(db, exc, lastrowid, rowcount, dml) ==
  [db |-> db, exc |-> exc, lastrowid |-> lastrowid, rowcount |-> rowcount, dml |-> dml]

\* rows of t selected by WHERE w.col = w.val
Matching(db, t, w) == {r \in db.rows[t] : r[w.col] = w.val}

\* two rows of t agree on all columns of one UNIQUE constraint
UniqueClash(t, r1, r2) == \E u \in Uniques(t) : \A c \in u : r1[c] = r2[c]

\* ON DELETE CASCADE (only when foreign keys are enforced): remove the rows
\* that reference a removed row, transitively
RECURSIVE Cascade(_, _)
Cascade(db, gone) ==
  LET orphans(t) == {r \in db.rows[t] :
                       \E fk \in ForeignKeys(t) : <<fk[2], r[fk[1]]>> \in gone}
      newgone == UNION {{<<t, r.id>> : r \in orphans(t)} : t \in RequiredTables}
  IN IF newgone = {} THEN db
     ELSE Cascade([db EXCEPT !.rows = [t \in RequiredTables |-> @[t] \ orphans(t)]],
                  newgone)

\* an INSERT whose cursor.lastrowid is the id before the one just assigned
ExecInsertStaleId(db, t, vals) ==
  LET id == NextRowId(db, t)
      row == [c \in Columns(t) \cup {"id"} |-> IF c = "id" THEN id ELSE vals[c]]
  IN IF t \notin db.tables THEN StmtResult(db, OperationalError, 0, 0, TRUE)
     ELSE IF \E c \in Columns(t) \cap IntColumns : vals[c] = Null
       THEN StmtResult(db, IntegrityError, 0, 0, TRUE)
     ELSE IF \E r \in db.rows[t] : UniqueClash(t, r, row)
       THEN StmtResult(db, IntegrityError, 0, 0, TRUE)
     ELSE StmtResult(
            [db EXCEPT !.rows[t] = @ \cup {row},
                       !.seq = IF t \in AutoincrementTables
                                 THEN [@ EXCEPT ![t] = id] ELSE @],
            NoExc, id - 1, 1, TRUE)

\* INSERT INTO t (columns) VALUES (vals)
ExecInsert(db, t, vals) ==
  LET id == NextRowId(db, t)
      row == [c \in Columns(t) \cup {"id"} |-> IF c = "id" THEN id ELSE vals[c]]
  IN IF t \notin db.tables THEN StmtResult(db, OperationalError, 0, 0, TRUE)
     ELSE IF \E c \in Columns(t) \cap IntColumns : vals[c] = Null
       THEN StmtResult(db, IntegrityError, 0, 0, TRUE)
     ELSE IF \E r \in db.rows[t] : UniqueClash(t, r, row)
       THEN StmtResult(db, IntegrityError, 0, 0, TRUE)
     ELSE IF foreign_keys /\ \E fk \in ForeignKeys(t) : vals[fk[1]] \notin RowIds(db, fk[2])
       THEN StmtResult(db, IntegrityError, 0, 0, TRUE)
     ELSE StmtResult(
            [db EXCEPT !.rows[t] = @ \cup {row},
                       !.seq = IF t \in AutoincrementTables
                                 THEN [@ EXCEPT ![t] = id] ELSE @],
            NoExc, id, 1, TRUE)

\* DELETE FROM t WHERE w.col = w.val
ExecDelete(db, t, w) ==
  LET del == Matching(db, t, w)
      db1 == [db EXCEPT !.rows[t] = @ \ del]
      db2 == IF foreign_keys THEN Cascade(db1, {<<t, r.id>> : r \in del}) ELSE db1
  IN IF t \notin db.tables THEN StmtResult(db, OperationalError, 0, 0, TRUE)
     ELSE StmtResult(db2, NoExc, 0, Cardinality(del), TRUE)

\* an UPDATE guarded by a trigger that rejects an owner different from the
\* owner of the parent row
ExecUpdateOwnerChecked(db, t, s, w) ==
  LET parent == IF t = "tasks" THEN <<"routine_id", "routines">> ELSE <<"task_id", "tasks">>
  IN IF /\ t \in {"tasks", "reminders"} /\ t \in db.tables /\ s.col = "user_id"
        /\ \E r \in Matching(db, t, w), q \in db.rows[parent[2]] :
             q.id = r[parent[1]] /\ q.user_id # s.val
       THEN StmtResult(db, IntegrityError, 0, 0, TRUE)
     ELSE StmtResult([db EXCEPT !.rows[t] =
                        (@ \ Matching(db, t, w))
                          \cup {[r EXCEPT ![s.col] = s.val] : r \in Matching(db, t, w)}],
                     NoExc, 0, Cardinality(Matching(db, t, w)), TRUE)

\* UPDATE t SET s.col = s.val WHERE w.col = w.val
ExecUpdate(db, t, s, w) ==
  LET hit == Matching(db, t, w)
      new == {[r EXCEPT ![s.col] = s.val] : r \in hit}
      rows2 == (db.rows[t] \ hit) \cup new
  IN IF t \notin db.tables THEN StmtResult(db, OperationalError, 0, 0, TRUE)
     ELSE IF hit # {} /\ s.col \in IntColumns /\ s.val = Null
       THEN StmtResult(db, IntegrityError, 0, 0, TRUE)
     ELSE IF \E r1 \in rows2, r2 \in rows2 : r1 # r2 /\ UniqueClash(t, r1, r2)
       THEN StmtResult(db, IntegrityError, 0, 0, TRUE)
     ELSE IF foreign_keys /\ hit # {} /\
             \E fk \in ForeignKeys(t) : fk[1] = s.col /\ s.val \notin RowIds(db, fk[2])
       THEN StmtResult(db, IntegrityError, 0, 0, TRUE)
     ELSE StmtResult([db EXCEPT !.rows[t] = rows2], NoExc, 0, Cardinality(hit), TRUE)

\* DROP TABLE t: the table goes with its rows, its indexes and its
\* sqlite_sequence entry; with foreign keys enforced an implicit DELETE runs first
ExecDrop(db, t) ==
  LET db1 == IF foreign_keys
               THEN Cascade(db, {<<t, r.id>> : r \in db.rows[t]}) ELSE db
      db2 == [db1 EXCEPT !.tables = @ \ {t},
                         !.rows[t] = {},
                         !.indexes = {i \in @ : Indexes[i][1] # t},
                         !.seq = [a \in AutoincrementTables |->
                                    IF a = t THEN 0 ELSE @[a]]]
  IN IF t \notin db.tables THEN StmtResult(db, OperationalError, 0, 0, FALSE)
     ELSE StmtResult(db2, NoExc, 0, -1, FALSE)     \* rowcount is -1 for a non-DML statement

\* SELECT * FROM t WHERE w.col = w.val: no row id is assigned, rowcount is -1
ExecSelect(db, t, w) ==
  IF t \notin db.tables THEN StmtResult(db, OperationalError, 0, 0, FALSE)
  ELSE StmtResult(db, NoExc, 0, -1, FALSE)

\* cursor.execute(query, params) on the store db
Execute(db, stmt) ==
  CASE stmt.kind = "INSERT" -> ExecInsert(db, stmt.table, stmt.vals)
    [] stmt.kind = "DELETE" -> ExecDelete(db, stmt.table, stmt.where)
    [] stmt.kind = "UPDATE" -> ExecUpdate(db, stmt.table, stmt.set, stmt.where)
    [] stmt.kind = "DROP" -> ExecDrop(db, stmt.table)
    [] stmt.kind = "SELECT" -> ExecSelect(db, stmt.table, stmt.where)

\* cursor.fetchall() after the statement ran on db: the selected rows, and
\* nothing for a statement that is not a SELECT
FetchAll(db, stmt) ==
  IF stmt.kind = "SELECT" /\ stmt.table \in db.tables
    THEN Matching(db, stmt.table, stmt.where) ELSE {}

----------------------------------------------------------------------------
(* get_connection, database.py 29-41 *)

Faults == {"none", "commit", "interrupt"}

Call(c, m) == [conn |-> c, call |-> m]

\* get_connection with conn.close() after the try statement instead of in a
\* finally clause: an exception leaves the connection open
GetConnectionNoFinally(c, bodyExc, commitExc, inner) ==
  LET commitRuns == bodyExc = NoExc
      tryExc == IF bodyExc # NoExc THEN bodyExc ELSE commitExc
      caught == tryExc # NoExc /\ IsException(tryExc)
      committed == commitRuns /\ commitExc = NoExc
  IN [calls |-> <<Call(c, "connect")>> \o inner
                \o (IF commitRuns THEN <<Call(c, "commit")>> ELSE <<>>)
                \o (IF caught THEN <<Call(c, "rollback")>> ELSE <<>>)
                \o (IF tryExc = NoExc THEN <<Call(c, "close")>> ELSE <<>>),
      exc |-> tryExc,
      txn |-> IF committed THEN "committed" ELSE "rolledback"]

\* One use of "with self.get_connection() as conn" on connection number c.
\*   bodyExc    exception raised by the with-body (NoExc: it completed)
\*   commitExc  exception conn.commit() at line 36 raises if it runs (NoExc: it succeeds)
\*   inner      connection calls made by the body itself (explicit commit, nested use)
\* The result gives the calls made on the connection in order, the exception
\* that leaves the context manager, and what became of the transaction:
\* conn.close() on a connection with an open transaction discards it.
GetConnection(c, bodyExc, commitExc, inner) ==
  LET commitRuns == bodyExc = NoExc                          \* line 36 follows the yield
      tryExc == IF bodyExc # NoExc THEN bodyExc ELSE commitExc
      caught == tryExc # NoExc /\ IsException(tryExc)        \* except Exception as e
      committed == commitRuns /\ commitExc = NoExc
  IN [calls |-> <<Call(c, "connect")>> \o inner
                \o (IF commitRuns THEN <<Call(c, "commit")>> ELSE <<>>)
                \o (IF caught THEN <<Call(c, "rollback")>> ELSE <<>>)   \* line 38
                \o <<Call(c, "close")>>,                                \* finally
      exc |-> tryExc,                                                   \* raise e
      txn |-> IF committed THEN "committed" ELSE "rolledback"]

\* The body shared by execute_insert / execute_update / execute_delete:
\*   with self.get_connection() as conn:
\*       cursor = conn.cursor(); cursor.execute(query, params); return <value>
\* fault "interrupt": a KeyboardInterrupt arrives after cursor.execute returned;
\* fault "commit": conn.commit() fails (only a pending transaction can fail to
\* commit).  sqlite3 opens a transaction before INSERT/UPDATE/DELETE only; any
\* other statement takes effect as soon as it has run.
RunStatement(db, stmt, fault) ==
  LET res == Execute(db, stmt)
      bodyExc == IF res.exc # NoExc THEN res.exc
                 ELSE IF fault = "interrupt" THEN KeyboardInterrupt ELSE NoExc
      pending == res.exc = NoExc /\ res.dml
      commitExc == IF fault = "commit" /\ pending THEN OperationalError ELSE NoExc
      conn == GetConnection(1, bodyExc, commitExc, <<>>)
  IN [db |-> IF res.dml /\ conn.txn # "committed" THEN db ELSE res.db,
      res |-> res,
      thrown |-> IF bodyExc # NoExc THEN bodyExc ELSE commitExc,
      conn |-> conn]

\* execute_query run on a connection that never commits
RunQueryReadOnly(db, stmt, fault) ==
  [RunStatement(db, stmt, fault) EXCEPT !.db = db]

\* execute_query, database.py 244-247: the same with-block around
\* cursor.execute(query, params); the rows are fetched before the commit
RunQuery(db, stmt, fault) == RunStatement(db, stmt, fault)

\* get_connection that keeps the connection in self.connection
ConnectionFieldStored(inst) == [inst EXCEPT !.connection = "Connection"]

\* the fields of the instance after a use of get_connection: line 32 binds the
\* connection to the local name conn, no attribute of self is assigned
ConnectionField(inst) == inst

----------------------------------------------------------------------------
(* Initialization: __init__, ensure_database_exists, create_schema, _verify_schema *)

\* create_schema without its last CREATE TABLE statement
CreateSchemaSevenTables(db) ==
  CreateIndexes(CreateTables(db, Len(TableOrder) - 1), DOMAIN Indexes)

\* create_schema, database.py 51-192: eight CREATE TABLE IF NOT EXISTS, then
\* _create_indexes
CreateSchema(db) == CreateIndexes(CreateTables(db, Len(TableOrder)), DOMAIN Indexes)

\* SELECT name FROM sqlite_master WHERE type='table'
ExistingTables(db) == db.tables

MissingTables(db) == RequiredTables \ ExistingTables(db)

\* a verification that rebuilds the schema from scratch
VerifySchemaRecreate(db) == CreateIndexes(CreateTables(NoFile, Len(TableOrder)), DOMAIN Indexes)

\* _verify_schema, database.py 214-231
VerifySchema(db) == IF MissingTables(db) # {} THEN CreateSchema(db) ELSE db

\* ensure_database_exists with no verification of an existing store
EnsureDatabaseExistsNoVerify(db) == IF ~db.exists THEN CreateSchema(db) ELSE db

\* ensure_database_exists, database.py 43-49
EnsureDatabaseExists(db) == IF ~db.exists THEN CreateSchema(db) ELSE VerifySchema(db)

\* connection calls of create_schema on connection c: the body ends with its
\* own conn.commit() (line 192) before the context manager commits
CreateSchemaCalls(c) ==
  GetConnection(c, NoExc, NoExc, <<Call(c, "commit")>>).calls

\* connection calls of ensure_database_exists
EnsureCalls(db) ==
  IF ~db.exists THEN CreateSchemaCalls(1)
  ELSE GetConnection(1, NoExc, NoExc,
         IF MissingTables(db) # {} THEN CreateSchemaCalls(2) ELSE <<>>).calls

\* the store after the first k statements of create_schema; each CREATE runs
\* outside a transaction and stays when a later statement fails
CreateSchemaPrefix(db, k) ==
  IF k <= Len(TableOrder) THEN CreateTables(db, k)
  ELSE CreateIndexes(CreateTables(db, Len(TableOrder)),
                     {IndexOrder[i] : i \in 1..(k - Len(TableOrder))})

\* ensure_database_exists when statement k of create_schema raises:
\* sqlite3.connect has created the file, the statements before k have run
FailedEnsure(db, k) == [CreateSchemaPrefix(db, k - 1) EXCEPT !.exists = TRUE]

\* connection calls of ensure_database_exists when create_schema raises
FailedEnsureCalls(db) ==
  IF ~db.exists THEN GetConnection(1, OperationalError, NoExc, <<>>).calls
  ELSE GetConnection(1, OperationalError, NoExc,
         GetConnection(2, OperationalError, NoExc, <<>>).calls).calls

NoInstance == [db_path |-> "unset", connection |-> "unset"]
NewInstance == [db_path |-> "routine.db", connection |-> "None"]    \* __init__ lines 25-26

----------------------------------------------------------------------------
(* Statements the callers pass, and stores that exist before the program starts *)

\* column values of an INSERT
InsertValues(t) ==
  CASE t = "users" -> [username : ColumnValues("username"), email : ColumnValues("email")]
    [] t = "routines" -> [user_id : ColumnValues("user_id")]
    [] t = "tasks" -> [routine_id : ColumnValues("routine_id"), user_id : ColumnValues("user_id")]
    [] t = "reminders" -> [task_id : ColumnValues("task_id"), user_id : ColumnValues("user_id")]
    [] t = "routine_logs" ->
         [routine_id : ColumnValues("routine_id"), user_id : ColumnValues("user_id")]
    [] t = "user_preferences" -> [user_id : ColumnValues("user_id")]
    [] t = "task_categories" -> [user_id : ColumnValues("user_id"), name : ColumnValues("name")]
    [] t = "task_category_mapping" ->
         [task_id : ColumnValues("task_id"), category_id : ColumnValues("category_id")]

Insert(t, vals) == [kind |-> "INSERT", table |-> t, vals |-> vals]
Delete(t, col, val) == [kind |-> "DELETE", table |-> t, where |-> [col |-> col, val |-> val]]
Update(t, scol, sval, wcol, wval) ==
  [kind |-> "UPDATE", table |-> t, set |-> [col |-> scol, val |-> sval],
   where |-> [col |-> wcol, val |-> wval]]
Drop(t) == [kind |-> "DROP", table |-> t]
Select(t, col, val) == [kind |-> "SELECT", table |-> t, where |-> [col |-> col, val |-> val]]

InsertStatements == UNION {{Insert(t, v) : v \in InsertValues(t)} : t \in RequiredTables}

\* the column an UPDATE sets
SetColumn(t) ==
  CASE t = "users" -> "username"
    [] t = "task_category_mapping" -> "category_id"
    [] OTHER -> "user_id"

UpdateStatements ==
  UNION {{Update(t, SetColumn(t), v, "id", i) :
            v \in IF SetColumn(t) \in IntColumns THEN IdValues ELSE Names, i \in IdValues}
         : t \in RequiredTables}

\* the columns a DELETE selects on
WhereColumns(t) == IF t = "tasks" THEN {"id", "user_id"} ELSE {"id"}

DeleteStatements ==
  UNION {{Delete(t, c, v) : c \in WhereColumns(t), v \in IdValues} : t \in RequiredTables}

DropStatements == {Drop(t) : t \in RequiredTables}

SelectStatements == {Select(t, "id", v) : t \in RequiredTables, v \in IdValues}

\* statements of every kind, passed to each of the four statement operations
CommonStatements ==
  {Insert("users", [username |-> "b", email |-> "b"]),
   Insert("tasks", [routine_id |-> 1, user_id |-> 1]),
   Update("routines", "user_id", 2, "id", 1),
   Delete("tasks", "id", 1),
   Drop("reminders"),
   Select("tasks", "user_id", 1)}

RECURSIVE ExecuteAll(_, _)
ExecuteAll(db, stmts) ==
  IF stmts = <<>> THEN db ELSE ExecuteAll(Execute(db, Head(stmts)).db, Tail(stmts))

\* A store left by earlier runs of the program: one user who owns a routine with
\* two tasks, a reminder, a routine log, preferences, a category and a mapping.
SeedStatements ==
  <<Insert("users", [username |-> "a", email |-> "a"]),
    Insert("routines", [user_id |-> 1]),
    Insert("tasks", [routine_id |-> 1, user_id |-> 1]),
    Insert("tasks", [routine_id |-> 1, user_id |-> 1]),
    Insert("reminders", [task_id |-> 1, user_id |-> 1]),
    Insert("routine_logs", [routine_id |-> 1, user_id |-> 1]),
    Insert("user_preferences", [user_id |-> 1]),
    Insert("task_categories", [user_id |-> 1, name |-> "a"]),
    Insert("task_category_mapping", [task_id |-> 1, category_id |-> 1])>>

SeedStore == ExecuteAll(CreateSchema(NoFile), SeedStatements)

RECURSIVE DropAll(_, _)
DropAll(db, ts) ==
  IF ts = {} THEN db
  ELSE LET t == CHOOSE x \in ts : TRUE IN DropAll(ExecDrop(db, t).db, ts \ {t})

\* sets of tables that an existing store may have lost
DamagedSets ==
  {{}, {"users"}, {"tasks"}, {"task_category_mapping"}, {"routines", "reminders"},
   RequiredTables}

\* the stores the program may find at db_path when it starts
InitialStores == {NoFile} \cup {DropAll(SeedStore, ts) : ts \in DamagedSets}

----------------------------------------------------------------------------
(* Validation layer, models.py.  The arguments of a construction give, for  *)
(* each field, the empty set when the field is not supplied and {v} when it *)
(* is supplied with value v.  A construction yields the record, or the set  *)
(* of <<field, error>> pairs pydantic collects over all failing fields.     *)

MaxDays == 2        \* longest days_of_week / days_of_month list

Idle == [model |-> "none"]
NoValue == [none |-> TRUE]

Supplied(opt) == opt # {}
The(opt) == CHOOSE v \in opt : TRUE

Missing == "field required"
OutOfRange == "value out of range"
NotAMember == "value is not a valid enumeration member"
NotADatetime == "invalid datetime format"
BadLength == "length out of range"

Built(model, errors, value) ==
  [model |-> model, ok |-> errors = {}, errors |-> errors,
   value |-> IF errors = {} THEN value ELSE NoValue]

\* the errors of an integer field with ge/le bounds; passing holds the supplied
\* value if it is within the bounds
IntField(name, opt, required, passing) ==
  IF ~Supplied(opt) THEN (IF required THEN {<<name, Missing>>} ELSE {})
  ELSE IF passing = opt THEN {} ELSE {<<name, OutOfRange>>}

Default(opt, d) == IF Supplied(opt) THEN The(opt) ELSE d

\* hour with le=24
HourOkLe24(h) == 0 <= h /\ h <= 24

\* TimeModel, models.py 60-64
HourOk(h) == 0 <= h /\ h <= 23          \* Field(..., ge=0, le=23)

MinuteOk(m) == 0 <= m /\ m <= 59        \* Field(..., ge=0, le=59)

SecondOk(x) == 0 <= x /\ x <= 59        \* Field(default=0, ge=0, le=59)

TimeModelErrors(args) ==
  IntField("hour", args.hour, TRUE, {v \in args.hour : HourOk(v)})
    \cup IntField("minute", args.minute, TRUE, {v \in args.minute : MinuteOk(v)})
    \cup IntField("second", args.second, FALSE, {v \in args.second : SecondOk(v)})

TimeModel(args) ==
  LET errors == TimeModelErrors(args)
  IN Built("TimeModel", errors,
           IF errors = {} THEN [hour |-> The(args.hour), minute |-> The(args.minute),
                                second |-> Default(args.second, 0)]
           ELSE NoValue)

\* RecurrenceType, models.py 16-23
RecurrenceType == {"none", "daily", "weekly", "biweekly", "monthly", "yearly"}

\* datetime values, and the inputs pydantic parses into one
Datetimes == {"2030-01-01T00:00:00"}

\* RecurrenceModel, models.py 88-116
FrequencyOk(f) == f >= 1                                   \* Field(default=1, ge=1)

\* days of week checked against 0..7
ValidateDaysOfWeekTo7(v) == \A i \in 1..Len(v) : 0 <= v[i] /\ v[i] <= 7

\* validate_days_of_week, models.py 102-108: all(0 <= day <= 6 for day in v)
ValidateDaysOfWeek(v) == \A i \in 1..Len(v) : 0 <= v[i] /\ v[i] <= 6

\* validate_days_of_month, models.py 110-116: all(1 <= day <= 31 for day in v)
ValidateDaysOfMonth(v) == \A i \in 1..Len(v) : 1 <= v[i] /\ v[i] <= 31

RecurrenceModelErrors(args) ==
  (IF Supplied(args.type) /\ The(args.type) \notin RecurrenceType
     THEN {<<"type", NotAMember>>} ELSE {})
  \cup IntField("frequency", args.frequency, FALSE, {v \in args.frequency : FrequencyOk(v)})
  \cup (IF Supplied(args.days_of_week) /\ ~ValidateDaysOfWeek(The(args.days_of_week))
          THEN {<<"days_of_week", "Days of week must be between 0 and 6">>} ELSE {})
  \cup (IF Supplied(args.days_of_month) /\ ~ValidateDaysOfMonth(The(args.days_of_month))
          THEN {<<"days_of_month", "Days of month must be between 1 and 31">>} ELSE {})
  \cup (IF Supplied(args.end_date) /\ The(args.end_date) \notin Datetimes
          THEN {<<"end_date", NotADatetime>>} ELSE {})

RecurrenceModel(args) ==
  LET errors == RecurrenceModelErrors(args)
  IN Built("RecurrenceModel", errors,
           [type |-> Default(args.type, "none"),
            frequency |-> Default(args.frequency, 1),
            days_of_week |-> args.days_of_week,        \* {} stands for None
            days_of_month |-> args.days_of_month,
            end_date |-> args.end_date])

\* datetime.utcnow(), the default_factory of created_at / updated_at: the k-th
\* reading of the clock; a later reading is a later instant
UtcNow(k) == <<"2026-11-06T00:00:00", "2026-11-06T00:00:01", "2026-11-06T00:00:02">>[k]

\* what a datetime field accepts
IsDatetime(v) == v \in Datetimes \cup {UtcNow(k) : k \in 1..3}

\* an Optional[datetime] field, or a datetime field with a default_factory
DatetimeField(name, opt) ==
  IF Supplied(opt) /\ ~IsDatetime(The(opt)) THEN {<<name, NotADatetime>>} ELSE {}

\* a field whose type is an Enum
EnumField(name, opt, members) ==
  IF Supplied(opt) /\ The(opt) \notin members THEN {<<name, NotAMember>>} ELSE {}

\* a timestamp field that ignores the value supplied and reads the clock
TimestampAlwaysNow(opt, now) == now

\* created_at / updated_at: Field(default_factory=datetime.utcnow)
Timestamp(opt, now) == Default(opt, now)

\* NotificationType, models.py 26-31
NotificationType == {"reminder", "alert", "info", "warning"}

TimeBeforeOk(m) == m >= 0                               \* Field(default=15, ge=0)

\* NotificationModel, models.py 133-148
NotificationModelErrors(args) ==
  EnumField("type", args.type, NotificationType)
    \cup IntField("time_before_minutes", args.time_before_minutes, FALSE,
                  {v \in args.time_before_minutes : TimeBeforeOk(v)})
    \cup DatetimeField("created_at", args.created_at)
    \cup DatetimeField("updated_at", args.updated_at)

NotificationModel(args, now) ==
  Built("NotificationModel", NotificationModelErrors(args),
        [id |-> args.id,                                   \* {} stands for None
         type |-> Default(args.type, "reminder"),
         time_before_minutes |-> Default(args.time_before_minutes, 15),
         enabled |-> Default(args.enabled, TRUE),
         message |-> args.message,
         created_at |-> Timestamp(args.created_at, now),
         updated_at |-> Timestamp(args.updated_at, now)])

\* ActivityCategory, models.py 34-44
ActivityCategory ==
  {"work", "health", "personal", "learning", "exercise", "meditation", "leisure",
   "social", "other"}

\* TaskStatus, models.py 47-53
TaskStatus == {"pending", "in_progress", "completed", "cancelled", "paused"}

\* TaskModel, models.py 188-230
MaxTitleLength == 255

TitleOk(s) == 1 <= Len(s) /\ Len(s) <= MaxTitleLength   \* min_length=1, max_length=255

PriorityOk(p) == 0 <= p /\ p <= 5                       \* Field(default=0, ge=0, le=5)

DurationOk(d) == d >= 0                                 \* Field(default=None, ge=0)

EndBeforeStartError == "End time must be after start time"

\* the comparison with <= on the minutes: an end equal to the start is rejected
EndNotAfterStart(v, start) ==
  v.hour < start.hour \/ (v.hour = start.hour /\ v.minute <= start.minute)

\* the comparison of validate_end_time, models.py 227-228
EndBeforeStart(v, start) ==
  v.hour < start.hour \/ (v.hour = start.hour /\ v.minute < start.minute)

\* validate_end_time, models.py 223-230: v is the validated end_time; values
\* holds the fields that validated before it, so start_time is in it only if
\* it passed ({} stands for None).  TRUE when the validator raises.
ValidateEndTime(v, values) ==
  /\ "start_time" \in DOMAIN values
  /\ values["start_time"] # {}
  /\ EndBeforeStart(v, The(values["start_time"]))

\* a nested Optional[TimeModel] field: {} for None, else the built TimeModel
NestedTime(opt) == IF Supplied(opt) THEN TimeModel(The(opt)) ELSE Built("TimeModel", {}, NoValue)

\* the recurrence field: Field(default_factory=RecurrenceModel), that is
\* RecurrenceModel() with every field at its default
NestedRecurrence(opt) ==
  RecurrenceModel(IF Supplied(opt) THEN The(opt)
                  ELSE [type |-> {}, frequency |-> {}, days_of_week |-> {},
                        days_of_month |-> {}, end_date |-> {}])

\* the notifications field, List[NotificationModel] with default_factory=list:
\* the outcome of building each element
NestedNotifications(opt, now) ==
  IF Supplied(opt) THEN [i \in 1..Len(The(opt)) |-> NotificationModel(The(opt)[i], now)]
  ELSE <<>>

TaskModelErrors(args) ==
  LET start == NestedTime(args.start_time)
      end == NestedTime(args.end_time)
      startValue == IF Supplied(args.start_time) THEN {start.value} ELSE {}
      values == IF start.ok THEN [start_time |-> startValue] ELSE <<>>
      notes == NestedNotifications(args.notifications, UtcNow(1))
  IN (IF ~Supplied(args.title) THEN {<<"title", Missing>>}
      ELSE IF TitleOk(The(args.title)) THEN {} ELSE {<<"title", BadLength>>})
     \cup EnumField("category", args.category, ActivityCategory)
     \cup EnumField("status", args.status, TaskStatus)
     \cup IntField("priority", args.priority, FALSE, {v \in args.priority : PriorityOk(v)})
     \cup {<<"start_time", e[1]>> : e \in start.errors}
     \cup {<<"end_time", e[1]>> : e \in end.errors}
     \cup (IF Supplied(args.end_time) /\ end.ok /\ ValidateEndTime(end.value, values)
             THEN {<<"end_time", EndBeforeStartError>>} ELSE {})
     \cup IntField("duration_minutes", args.duration_minutes, FALSE,
                   {v \in args.duration_minutes : DurationOk(v)})
     \cup DatetimeField("due_date", args.due_date)
     \cup {<<"recurrence", e[1]>> : e \in NestedRecurrence(args.recurrence).errors}
     \cup UNION {{<<"notifications", e[1]>> : e \in notes[i].errors} : i \in DOMAIN notes}
     \cup DatetimeField("completion_date", args.completion_date)
     \cup DatetimeField("created_at", args.created_at)
     \cup DatetimeField("updated_at", args.updated_at)

\* TaskModel(**args) at the instant now
TaskModel(args, now) ==
  LET errors == TaskModelErrors(args)
      notes == NestedNotifications(args.notifications, now)
  IN Built("TaskModel", errors,
           [id |-> args.id,                                  \* {} stands for None
            title |-> Default(args.title, ""),
            description |-> args.description,
            category |-> Default(args.category, "personal"),
            status |-> Default(args.status, "pending"),
            priority |-> Default(args.priority, 0),
            start_time |-> IF Supplied(args.start_time)
                             THEN {NestedTime(args.start_time).value} ELSE {},
            end_time |-> IF Supplied(args.end_time)
                           THEN {NestedTime(args.end_time).value} ELSE {},
            duration_minutes |-> args.duration_minutes,
            due_date |-> args.due_date,
            recurrence |-> NestedRecurrence(args.recurrence).value,
            notifications |-> [i \in DOMAIN notes |-> notes[i].value],
            tags |-> Default(args.tags, <<>>),
            is_recurring |-> Default(args.is_recurring, FALSE),
            is_completed |-> Default(args.is_completed, FALSE),
            completion_date |-> args.completion_date,
            created_at |-> Timestamp(args.created_at, now),
            updated_at |-> Timestamp(args.updated_at, now),
            user_id |-> args.user_id])

\* a required field, Field(...): an error when it is not supplied
RequiredField(name, opt) == IF Supplied(opt) THEN {} ELSE {<<name, Missing>>}

\* ActivityCategoryModel, models.py 165-171
ActivityCategoryModel(args) ==
  Built("ActivityCategoryModel",
        RequiredField("name", args.name) \cup EnumField("name", args.name, ActivityCategory),
        [id |-> args.id, name |-> Default(args.name, ""), description |-> args.description,
         color |-> args.color, icon |-> args.icon])

\* a count without its lower bound
CountOkUnbounded(n) == TRUE

CountOk(n) == n >= 0                                    \* Field(default=0, ge=0)

\* ge=0.0, le=100.0; the percentages are modelled by their whole values
PercentageOk(x) == 0 <= x /\ x <= 100

\* UserProfileModel, models.py 253-272
UserProfileModelErrors(args) ==
  (IF ~Supplied(args.username) THEN {<<"username", Missing>>}
   ELSE IF TitleOk(The(args.username)) THEN {} ELSE {<<"username", BadLength>>})
    \cup RequiredField("email", args.email)
    \cup IntField("total_tasks", args.total_tasks, FALSE, {v \in args.total_tasks : CountOk(v)})
    \cup IntField("completed_tasks", args.completed_tasks, FALSE,
                  {v \in args.completed_tasks : CountOk(v)})
    \cup IntField("streak_days", args.streak_days, FALSE, {v \in args.streak_days : CountOk(v)})
    \cup DatetimeField("last_login", args.last_login)
    \cup DatetimeField("created_at", args.created_at)
    \cup DatetimeField("updated_at", args.updated_at)

UserProfileModel(args, now) ==
  Built("UserProfileModel", UserProfileModelErrors(args),
        [id |-> args.id, username |-> Default(args.username, ""),
         email |-> Default(args.email, ""), first_name |-> args.first_name,
         last_name |-> args.last_name, bio |-> args.bio,
         profile_picture_url |-> args.profile_picture_url,
         timezone |-> Default(args.timezone, "UTC"), language |-> Default(args.language, "en"),
         theme |-> Default(args.theme, "light"),
         notifications_enabled |-> Default(args.notifications_enabled, TRUE),
         total_tasks |-> Default(args.total_tasks, 0),
         completed_tasks |-> Default(args.completed_tasks, 0),
         streak_days |-> Default(args.streak_days, 0),
         last_login |-> args.last_login,
         created_at |-> Timestamp(args.created_at, now),
         updated_at |-> Timestamp(args.updated_at, now),
         preferences |-> Default(args.preferences, <<>>)])

\* a List[TaskModel] field with default_factory=list: the outcome of building each element
NestedTasks(opt, now) ==
  IF Supplied(opt) THEN [i \in 1..Len(The(opt)) |-> TaskModel(The(opt)[i], now)] ELSE <<>>

\* DailyScheduleModel, models.py 292-322
DailyScheduleModelErrors(args) ==
  LET tasks == NestedTasks(args.tasks, UtcNow(1))
  IN RequiredField("user_id", args.user_id)
       \cup RequiredField("date", args.date)
       \cup DatetimeField("date", args.date)
       \cup UNION {{<<"tasks", e[1]>> : e \in tasks[i].errors} : i \in DOMAIN tasks}
       \cup IntField("total_duration_minutes", args.total_duration_minutes, FALSE,
                     {v \in args.total_duration_minutes : CountOk(v)})
       \cup IntField("completed_tasks_count", args.completed_tasks_count, FALSE,
                     {v \in args.completed_tasks_count : CountOk(v)})
       \cup IntField("pending_tasks_count", args.pending_tasks_count, FALSE,
                     {v \in args.pending_tasks_count : CountOk(v)})
       \cup IntField("completion_percentage", args.completion_percentage, FALSE,
                     {v \in args.completion_percentage : PercentageOk(v)})
       \cup DatetimeField("created_at", args.created_at)
       \cup DatetimeField("updated_at", args.updated_at)

DailyScheduleModel(args, now) ==
  LET tasks == NestedTasks(args.tasks, now)
  IN Built("DailyScheduleModel", DailyScheduleModelErrors(args),
           [id |-> args.id, user_id |-> Default(args.user_id, ""),
            date |-> Default(args.date, ""),
            tasks |-> [i \in DOMAIN tasks |-> tasks[i].value],
            total_duration_minutes |-> Default(args.total_duration_minutes, 0),
            completed_tasks_count |-> Default(args.completed_tasks_count, 0),
            pending_tasks_count |-> Default(args.pending_tasks_count, 0),
            completion_percentage |-> Default(args.completion_percentage, 0),
            notes |-> args.notes, mood |-> args.mood,
            created_at |-> Timestamp(args.created_at, now),
            updated_at |-> Timestamp(args.updated_at, now)])

\* a nested Optional[TaskModel] field: {} for None, else the built TaskModel
NestedTask(opt, now) ==
  IF Supplied(opt) THEN TaskModel(The(opt), now) ELSE Built("TaskModel", {}, NoValue)

\* TaskResponseModel, models.py 343-349
TaskResponseModelErrors(args) ==
  RequiredField("success", args.success)
    \cup RequiredField("message", args.message)
    \cup {<<"data", e[1]>> : e \in NestedTask(args.data, UtcNow(1)).errors}
    \cup DatetimeField("timestamp", args.timestamp)

TaskResponseModel(args, now) ==
  Built("TaskResponseModel", TaskResponseModelErrors(args),
        [success |-> Default(args.success, FALSE), message |-> Default(args.message, ""),
         data |-> IF Supplied(args.data) THEN {NestedTask(args.data, now).value} ELSE {},
         errors |-> args.errors,
         timestamp |-> Timestamp(args.timestamp, now)])

\* ScheduleStatsModel, models.py 372-421
ScheduleStatsModelErrors(args) ==
  RequiredField("user_id", args.user_id)
    \cup RequiredField("period_start", args.period_start)
    \cup DatetimeField("period_start", args.period_start)
    \cup RequiredField("period_end", args.period_end)
    \cup DatetimeField("period_end", args.period_end)
    \cup IntField("total_tasks", args.total_tasks, FALSE, {v \in args.total_tasks : CountOk(v)})
    \cup IntField("completed_tasks", args.completed_tasks, FALSE,
                  {v \in args.completed_tasks : CountOk(v)})
    \cup IntField("cancelled_tasks", args.cancelled_tasks, FALSE,
                  {v \in args.cancelled_tasks : CountOk(v)})
    \cup IntField("pending_tasks", args.pending_tasks, FALSE,
                  {v \in args.pending_tasks : CountOk(v)})
    \cup IntField("completion_rate", args.completion_rate, FALSE,
                  {v \in args.completion_rate : PercentageOk(v)})
    \cup IntField("total_hours_logged", args.total_hours_logged, FALSE,
                  {v \in args.total_hours_logged : CountOk(v)})
    \cup IntField("average_daily_tasks", args.average_daily_tasks, FALSE,
                  {v \in args.average_daily_tasks : CountOk(v)})
    \cup IntField("longest_streak", args.longest_streak, FALSE,
                  {v \in args.longest_streak : CountOk(v)})
    \cup IntField("current_streak", args.current_streak, FALSE,
                  {v \in args.current_streak : CountOk(v)})
    \cup DatetimeField("created_at", args.created_at)
    \cup DatetimeField("updated_at", args.updated_at)

ScheduleStatsModel(args, now) ==
  Built("ScheduleStatsModel", ScheduleStatsModelErrors(args),
        [id |-> args.id, user_id |-> Default(args.user_id, ""),
         period_start |-> Default(args.period_start, ""),
         period_end |-> Default(args.period_end, ""),
         total_tasks |-> Default(args.total_tasks, 0),
         completed_tasks |-> Default(args.completed_tasks, 0),
         cancelled_tasks |-> Default(args.cancelled_tasks, 0),
         pending_tasks |-> Default(args.pending_tasks, 0),
         completion_rate |-> Default(args.completion_rate, 0),
         total_hours_logged |-> Default(args.total_hours_logged, 0),
         average_daily_tasks |-> Default(args.average_daily_tasks, 0),
         tasks_by_category |-> Default(args.tasks_by_category, <<>>),
         completion_by_category |-> Default(args.completion_by_category, <<>>),
         most_active_day |-> args.most_active_day,
         longest_streak |-> Default(args.longest_streak, 0),
         current_streak |-> Default(args.current_streak, 0),
         weekly_breakdown |-> Default(args.weekly_breakdown, <<>>),
         created_at |-> Timestamp(args.created_at, now),
         updated_at |-> Timestamp(args.updated_at, now)])

----------------------------------------------------------------------------
(* The state machine of the schema manager *)

NoStmt == [kind |-> "none", table |-> "none"]

NoOp ==
  [op |-> "none", stmt |-> NoStmt, outcome |-> "none", value |-> 0, rows |-> {},
   exc |-> NoExc, thrown |-> NoExc, calls |-> <<>>, txn |-> "none"]

Init ==
  /\ store \in InitialStores
  /\ instance = NoInstance
  /\ last = NoOp
  /\ nops = 0
  /\ call = Idle
  /\ built = Idle
  /\ clock = 1
  /\ rebuilt = Idle
  /\ crashed = FALSE

\* init_database(db_path) / RoutineDatabase(db_path), database.py 18-27, 312-322
InitDatabase ==
  /\ nops < MaxOps
  /\ store' = EnsureDatabaseExists(store)
  /\ instance' = ConnectionField(NewInstance)
  /\ last' = [op |-> "init_database", stmt |-> NoStmt, outcome |-> "returned", value |-> 0,
              rows |-> {}, exc |-> NoExc, thrown |-> NoExc, calls |-> EnsureCalls(store),
              txn |-> "committed"]
  /\ nops' = nops + 1
  /\ UNCHANGED <<call, built, clock, rebuilt, crashed>>

\* RoutineDatabase(db_path) when statement k of create_schema raises: the
\* exception leaves __init__, so no instance is made
InitDatabaseFails ==
  /\ nops < MaxOps
  /\ ~store.exists \/ MissingTables(store) # {}
  /\ \E k \in 1..(Len(TableOrder) + Len(IndexOrder)) :    \* the statement that fails
       /\ store' = FailedEnsure(store, k)
       /\ last' = [op |-> "init_database", stmt |-> NoStmt, outcome |-> "raised", value |-> 0,
                   rows |-> {}, exc |-> OperationalError, thrown |-> OperationalError,
                   calls |-> FailedEnsureCalls(store), txn |-> "rolledback"]
  /\ crashed' = (crashed \/ ~store.exists)
  /\ nops' = nops + 1
  /\ UNCHANGED <<instance, call, built, clock, rebuilt>>

\* what a statement operation leaves behind: the store, and the value returned
\* or the exception raised to the caller
Finish(op, stmt, run, value, rows) ==
  /\ store' = run.db
  /\ instance' = ConnectionField(instance)
  /\ last' = [op |-> op, stmt |-> stmt,
              outcome |-> IF run.conn.exc = NoExc THEN "returned" ELSE "raised",
              value |-> IF run.conn.exc = NoExc THEN value ELSE 0,
              rows |-> IF run.conn.exc = NoExc THEN rows ELSE {},
              exc |-> run.conn.exc, thrown |-> run.thrown,
              calls |-> run.conn.calls, txn |-> run.conn.txn]
  /\ nops' = nops + 1
  /\ UNCHANGED <<call, built, clock, rebuilt, crashed>>

\* execute_query, database.py 233-247: return cursor.fetchall()
ExecuteQuery ==
  /\ instance # NoInstance
  /\ nops < MaxOps
  /\ \E stmt \in SelectStatements \cup CommonStatements, fault \in Faults :
       LET run == RunQuery(store, stmt, fault)
       IN Finish("execute_query", stmt, run, 0, FetchAll(store, stmt))

\* execute_insert, database.py 249-263: return cursor.lastrowid
ExecuteInsert ==
  /\ instance # NoInstance
  /\ nops < MaxOps
  /\ \E stmt \in InsertStatements \cup CommonStatements, fault \in Faults :
       LET run == RunStatement(store, stmt, fault)
       IN Finish("execute_insert", stmt, run, run.res.lastrowid, {})

\* execute_update, database.py 265-279: return cursor.rowcount
ExecuteUpdate ==
  /\ instance # NoInstance
  /\ nops < MaxOps
  /\ \E stmt \in UpdateStatements \cup DropStatements \cup CommonStatements, fault \in Faults :
       LET run == RunStatement(store, stmt, fault)
       IN Finish("execute_update", stmt, run, run.res.rowcount, {})

\* execute_delete, database.py 281-295: return cursor.rowcount
ExecuteDelete ==
  /\ instance # NoInstance
  /\ nops < MaxOps
  /\ \E stmt \in DeleteStatements \cup CommonStatements, fault \in Faults :
       LET run == RunStatement(store, stmt, fault)
       IN Finish("execute_delete", stmt, run, run.res.rowcount, {})

\* close(), database.py 297-300: closes self.connection if it is set
Closed(op) ==
  /\ last' = [NoOp EXCEPT !.op = op, !.outcome = "returned",
                          !.calls = IF instance.connection # "None"
                                      THEN <<Call(0, "close")>> ELSE <<>>]
  /\ instance' = IF instance.connection # "None"
                   THEN [instance EXCEPT !.connection = "closed"] ELSE instance
  /\ nops' = nops + 1
  /\ UNCHANGED <<store, call, built, clock, rebuilt, crashed>>

\* close(), database.py 297-300
Close ==
  /\ instance # NoInstance
  /\ nops < MaxOps
  /\ Closed("close")

\* leaving "with RoutineDatabase(path) as db:", database.py 306-308: __exit__ calls close()
Exit ==
  /\ instance # NoInstance
  /\ nops < MaxOps
  /\ Closed("__exit__")

Next ==
  \/ InitDatabase
  \/ InitDatabaseFails
  \/ ExecuteQuery
  \/ ExecuteInsert
  \/ ExecuteUpdate
  \/ ExecuteDelete
  \/ Close
  \/ Exit

Spec == Init /\ [][Next]_vars

----------------------------------------------------------------------------
(* The constructions of the validation layer *)

Opt(S) == {{}} \cup {{v} : v \in S}

TimeInputs == {-1, 0, 9, 23, 24, 59, 60}

TimeArgs == [hour : Opt(TimeInputs), minute : Opt(TimeInputs), second : Opt(TimeInputs)]

\* the times given to a task record: valid ones around 09:00, and hour 24
TaskTimeArgs == [hour : Opt({8, 9, 24}), minute : {{0}, {1}, {30}}, second : Opt({0, 59})]

ListsOver(S) == UNION {[1..n -> S] : n \in 0..MaxDays}

RecurrenceArgs ==
  [type : Opt({"weekly", "hourly"}),
   frequency : Opt({0, 1, 2}),
   days_of_week : Opt(ListsOver({-1, 0, 6, 7})),
   days_of_month : Opt(ListsOver({0, 1, 31, 32})),
   end_date : Opt(Datetimes \cup {"soon"})]

TitleOfLength(n) == [i \in 1..n |-> "x"]

NotificationArgs ==
  [id : Opt({"n1"}),
   type : Opt({"alert", "sms"}),
   time_before_minutes : Opt({-1, 0}),
   enabled : Opt({FALSE}),
   message : Opt({"m"}),
   created_at : Opt(Datetimes \cup {"soon"}),
   updated_at : Opt(Datetimes)]

\* title, priority and the two times of a task, in all combinations
TaskCoreArgs ==
  [title : Opt({TitleOfLength(n) : n \in {0, 1, MaxTitleLength, MaxTitleLength + 1}}),
   priority : Opt({-1, 0, 5, 6}),
   start_time : Opt(TaskTimeArgs),
   end_time : Opt(TaskTimeArgs)]

\* a few choices of title, priority and times to combine with the other fields
TaskCoreFew ==
  LET NineOClock == [hour |-> {9}, minute |-> {0}, second |-> {}]
  IN
  {[title |-> {TitleOfLength(1)}, priority |-> {5}, start_time |-> {NineOClock},
    end_time |-> {[NineOClock EXCEPT !.minute = {30}, !.second = {59}]}],
   [title |-> {TitleOfLength(1)}, priority |-> {}, start_time |-> {}, end_time |-> {}],
   [title |-> {}, priority |-> {6}, start_time |-> {}, end_time |-> {NineOClock}]}

\* the constrained fields of a task besides the core ones
TaskConstrainedArgs ==
  LET WeeklyArgs ==
        [type |-> {"weekly"}, frequency |-> {2}, days_of_week |-> {<<0, 6>>},
         days_of_month |-> {}, end_date |-> Datetimes]
      AlertArgs ==
        [id |-> {"n1"}, type |-> {"alert"}, time_before_minutes |-> {0},
         enabled |-> {FALSE}, message |-> {"m"}, created_at |-> {},
         updated_at |-> Datetimes]
  IN
  [category : Opt({"work", "chores"}),
   status : Opt({"completed", "overdue"}),
   duration_minutes : Opt({-1, 30}),
   due_date : Opt(Datetimes \cup {"soon"}),
   recurrence : Opt({WeeklyArgs, [WeeklyArgs EXCEPT !.days_of_week = {<<7>>}]}),
   notifications : Opt({<<AlertArgs>>,
                        <<AlertArgs, [AlertArgs EXCEPT !.time_before_minutes = {-1}]>>})]

\* the fields of a task without a declared range: none supplied, all supplied,
\* all supplied with a completion date and a creation time that are no datetimes
TaskFreeArgs ==
  LET none == [id |-> {}, description |-> {}, tags |-> {}, is_recurring |-> {},
               is_completed |-> {}, completion_date |-> {}, created_at |-> {},
               updated_at |-> {}, user_id |-> {}]
      all == [id |-> {"t1"}, description |-> {"d"}, tags |-> {<<"x", "y">>},
              is_recurring |-> {TRUE}, is_completed |-> {TRUE},
              completion_date |-> Datetimes, created_at |-> Datetimes,
              updated_at |-> Datetimes, user_id |-> {"u1"}]
  IN {none, all, [all EXCEPT !.completion_date = {"soon"}, !.created_at = {"soon"}]}

\* the keyword arguments of a task construction
TaskArgs(core, constrained, free) == core @@ constrained @@ free

\* a valid task that supplies a title, a priority and a start time only
MorningTaskArgs ==
  [title |-> {TitleOfLength(1)}, priority |-> {5},
   start_time |-> {[hour |-> {9}, minute |-> {0}, second |-> {}]}, end_time |-> {},
   category |-> {}, status |-> {}, duration_minutes |-> {}, due_date |-> {},
   recurrence |-> {}, notifications |-> {},
   id |-> {}, description |-> {}, tags |-> {}, is_recurring |-> {}, is_completed |-> {},
   completion_date |-> {}, created_at |-> {}, updated_at |-> {}, user_id |-> {}]

ActivityCategoryArgs ==
  [id : Opt({"c1"}), name : Opt({"work", "chores"}), description : Opt({"d"}),
   color : Opt({"#FF6B6B"}), icon : Opt({"briefcase"})]

\* the keyword arguments of a UserProfileModel construction: every choice of the
\* fields with a declared range, with the other fields all absent or all supplied
UserProfileArgs ==
  LET ranged ==
        [username : Opt({TitleOfLength(n) : n \in {0, 1, MaxTitleLength, MaxTitleLength + 1}}),
         email : Opt({"a@b"}),
         total_tasks : Opt({-1, 0}),
         completed_tasks : Opt({-1, 0}),
         streak_days : Opt({-1, 0}),
         last_login : Opt(Datetimes \cup {"soon"})]
      free ==
        {[id |-> {}, first_name |-> {}, last_name |-> {}, bio |-> {}, profile_picture_url |-> {},
          timezone |-> {}, language |-> {}, theme |-> {}, notifications_enabled |-> {},
          created_at |-> {}, updated_at |-> {}, preferences |-> {}],
         [id |-> {"u1"}, first_name |-> {"f"}, last_name |-> {"l"}, bio |-> {"b"},
          profile_picture_url |-> {"http://p"}, timezone |-> {"CET"}, language |-> {"fr"},
          theme |-> {"dark"}, notifications_enabled |-> {FALSE}, created_at |-> Datetimes,
          updated_at |-> {"soon"}, preferences |-> {[k \in {"font"} |-> "big"]}]}
  IN {a @@ f : a \in ranged, f \in free}

\* the keyword arguments of a DailyScheduleModel construction: every choice of the
\* fields with a declared range, with the other fields all absent or all supplied
DailyScheduleArgs ==
  LET ranged ==
        [user_id : Opt({"u1"}),
         date : Opt(Datetimes \cup {"soon"}),
         \* a valid task alone, and followed by one whose priority is out of range
         tasks : Opt({<<MorningTaskArgs>>,
                      <<MorningTaskArgs, [MorningTaskArgs EXCEPT !.priority = {6}]>>}),
         total_duration_minutes : Opt({-1, 0}),
         completed_tasks_count : Opt({-1, 0}),
         pending_tasks_count : Opt({-1, 0}),
         completion_percentage : Opt({-1, 0, 100, 101})]
      free ==
        {[id |-> {}, notes |-> {}, mood |-> {}, created_at |-> {}, updated_at |-> {}],
         [id |-> {"s1"}, notes |-> {"n"}, mood |-> {"fine"}, created_at |-> {"soon"},
          updated_at |-> Datetimes]}
  IN {a @@ f : a \in ranged, f \in free}

TaskResponseArgs ==
  [success : Opt({TRUE}), message : Opt({"ok"}),
   data : Opt({MorningTaskArgs, [MorningTaskArgs EXCEPT !.priority = {6}]}),
   errors : Opt({<<"e">>}),
   timestamp : Opt(Datetimes \cup {"soon"})]

\* the keyword arguments of a ScheduleStatsModel construction: every choice of the
\* fields with a declared range, with the other fields all absent or all supplied
ScheduleStatsArgs ==
  LET ranged ==
        [user_id : Opt({"u1"}),
         period_start : Opt(Datetimes \cup {"soon"}),
         period_end : {Datetimes, {"soon"}},
         total_tasks : Opt({-1, 0}),
         completed_tasks : Opt({-1, 0}),
         cancelled_tasks : {{-1}, {0}},
         pending_tasks : {{-1}, {0}},
         completion_rate : Opt({100, 101}),
         total_hours_logged : {{-1}, {0}},
         average_daily_tasks : {{-1}, {0}},
         longest_streak : {{-1}, {0}},
         current_streak : {{-1}, {0}}]
      free ==
        {[id |-> {}, tasks_by_category |-> {}, completion_by_category |-> {},
          most_active_day |-> {}, weekly_breakdown |-> {}, created_at |-> {}, updated_at |-> {}],
         [id |-> {"x1"}, tasks_by_category |-> {[k \in {"work"} |-> 1]},
          completion_by_category |-> {[k \in {"work"} |-> 50]},
          most_active_day |-> {"monday"}, weekly_breakdown |-> {[k \in {"w1"} |-> 1]},
          created_at |-> Datetimes, updated_at |-> {"soon"}]}
  IN {a @@ f : a \in ranged, f \in free}

\* BaseModel.dict() of a TimeModel: field name -> value
TimeModelDict(v) == [hour |-> v.hour, minute |-> v.minute, second |-> v.second]

\* BaseModel.dict() of a RecurrenceModel
RecurrenceModelDict(v) ==
  [type |-> v.type, frequency |-> v.frequency, days_of_week |-> v.days_of_week,
   days_of_month |-> v.days_of_month, end_date |-> v.end_date]

\* BaseModel.dict() of a NotificationModel
NotificationModelDict(v) ==
  [id |-> v.id, type |-> v.type, time_before_minutes |-> v.time_before_minutes,
   enabled |-> v.enabled, message |-> v.message, created_at |-> v.created_at,
   updated_at |-> v.updated_at]

\* BaseModel.dict() of a TaskModel: the nested records are converted recursively
TaskModelDict(v) ==
  [id |-> v.id, title |-> v.title, description |-> v.description,
   category |-> v.category, status |-> v.status, priority |-> v.priority,
   start_time |-> {TimeModelDict(t) : t \in v.start_time},
   end_time |-> {TimeModelDict(t) : t \in v.end_time},
   duration_minutes |-> v.duration_minutes, due_date |-> v.due_date,
   recurrence |-> RecurrenceModelDict(v.recurrence),
   notifications |-> [i \in DOMAIN v.notifications |->
                        NotificationModelDict(v.notifications[i])],
   tags |-> v.tags, is_recurring |-> v.is_recurring, is_completed |-> v.is_completed,
   completion_date |-> v.completion_date, created_at |-> v.created_at,
   updated_at |-> v.updated_at, user_id |-> v.user_id]

\* Model(**d) for a dict d: every key of d is a supplied keyword argument; a key
\* whose value is None ({}) is the same as the field left at its default None
TimeKwargs(d) == [hour |-> {d.hour}, minute |-> {d.minute}, second |-> {d.second}]

RecurrenceKwargs(d) ==
  [type |-> {d.type}, frequency |-> {d.frequency}, days_of_week |-> d.days_of_week,
   days_of_month |-> d.days_of_month, end_date |-> d.end_date]

NotificationKwargs(d) ==
  [id |-> d.id, type |-> {d.type}, time_before_minutes |-> {d.time_before_minutes},
   enabled |-> {d.enabled}, message |-> d.message, created_at |-> {d.created_at},
   updated_at |-> {d.updated_at}]

TaskKwargs(d) ==
  [id |-> d.id, title |-> {d.title}, description |-> d.description,
   category |-> {d.category}, status |-> {d.status}, priority |-> {d.priority},
   start_time |-> {TimeKwargs(t) : t \in d.start_time},
   end_time |-> {TimeKwargs(t) : t \in d.end_time},
   duration_minutes |-> d.duration_minutes, due_date |-> d.due_date,
   recurrence |-> {RecurrenceKwargs(d.recurrence)},
   notifications |-> {[i \in DOMAIN d.notifications |->
                         NotificationKwargs(d.notifications[i])]},
   tags |-> {d.tags}, is_recurring |-> {d.is_recurring}, is_completed |-> {d.is_completed},
   completion_date |-> d.completion_date, created_at |-> {d.created_at},
   updated_at |-> {d.updated_at}, user_id |-> d.user_id]

InitModels ==
  /\ \/ \E a \in TimeArgs : call = [model |-> "TimeModel", args |-> a]
     \/ \E a \in RecurrenceArgs : call = [model |-> "RecurrenceModel", args |-> a]
     \/ \E a \in NotificationArgs : call = [model |-> "NotificationModel", args |-> a]
     \/ \E a \in ActivityCategoryArgs : call = [model |-> "ActivityCategoryModel", args |-> a]
     \/ \E a \in UserProfileArgs : call = [model |-> "UserProfileModel", args |-> a]
     \/ \E a \in DailyScheduleArgs : call = [model |-> "DailyScheduleModel", args |-> a]
     \/ \E a \in TaskResponseArgs : call = [model |-> "TaskResponseModel", args |-> a]
     \/ \E a \in ScheduleStatsArgs : call = [model |-> "ScheduleStatsModel", args |-> a]
     \/ \E core \in TaskCoreArgs :
          call = [model |-> "TaskModel",
                  args |-> [MorningTaskArgs EXCEPT !.title = core.title,
                                                   !.priority = core.priority,
                                                   !.start_time = core.start_time,
                                                   !.end_time = core.end_time]]
     \/ \E core \in TaskCoreFew, c \in TaskConstrainedArgs, f \in TaskFreeArgs :
          call = [model |-> "TaskModel", args |-> TaskArgs(core, c, f)]
  /\ built = Idle
  /\ clock = 1
  /\ rebuilt = Idle
  /\ store = NoFile
  /\ instance = NoInstance
  /\ last = NoOp
  /\ nops = 0
  /\ crashed = FALSE

\* a construction: the record built (or the errors), one reading of the clock later
Construct(result) ==
  /\ built' = result
  /\ clock' = clock + 1
  /\ UNCHANGED <<store, instance, last, nops, call, rebuilt, crashed>>

ConstructTimeModel ==
  /\ built = Idle
  /\ call.model = "TimeModel"
  /\ Construct(TimeModel(call.args))

ConstructRecurrenceModel ==
  /\ built = Idle
  /\ call.model = "RecurrenceModel"
  /\ Construct(RecurrenceModel(call.args))

ConstructNotificationModel ==
  /\ built = Idle
  /\ call.model = "NotificationModel"
  /\ Construct(NotificationModel(call.args, UtcNow(clock)))

ConstructTaskModel ==
  /\ built = Idle
  /\ call.model = "TaskModel"
  /\ Construct(TaskModel(call.args, UtcNow(clock)))

ConstructActivityCategoryModel ==
  /\ built = Idle
  /\ call.model = "ActivityCategoryModel"
  /\ Construct(ActivityCategoryModel(call.args))

ConstructUserProfileModel ==
  /\ built = Idle
  /\ call.model = "UserProfileModel"
  /\ Construct(UserProfileModel(call.args, UtcNow(clock)))

ConstructDailyScheduleModel ==
  /\ built = Idle
  /\ call.model = "DailyScheduleModel"
  /\ Construct(DailyScheduleModel(call.args, UtcNow(clock)))

ConstructTaskResponseModel ==
  /\ built = Idle
  /\ call.model = "TaskResponseModel"
  /\ Construct(TaskResponseModel(call.args, UtcNow(clock)))

ConstructScheduleStatsModel ==
  /\ built = Idle
  /\ call.model = "ScheduleStatsModel"
  /\ Construct(ScheduleStatsModel(call.args, UtcNow(clock)))

\* d = task.dict(); TaskModel(**d), at a later instant than the construction of task
RoundTripTaskModel ==
  /\ built.model = "TaskModel"
  /\ built.ok
  /\ rebuilt = Idle
  /\ LET d == TaskModelDict(built.value)
     IN rebuilt' = [model |-> "TaskModel", of |-> built.value, dict |-> d,
                    result |-> TaskModel(TaskKwargs(d), UtcNow(clock))]
  /\ clock' = clock + 1
  /\ UNCHANGED <<store, instance, last, nops, call, built, crashed>>

\* record.field = v.  No Config in models.py sets allow_mutation = False (or
\* frozen) or validate_assignment = True (TimeModel.Config 66-73, TaskModel.Config
\* 232-246 hold schema_extra only), so BaseModel accepts the assignment and
\* stores the value without running the field's validation.
SetAttr(record, field, v) == [record EXCEPT ![field] = v]

\* the assignments tried on an existing record: a value inside and a value
\* outside the declared range of the field
Assignments(model) ==
  CASE model = "TimeModel" -> {<<"hour", 0>>, <<"hour", 24>>}
    [] model = "TaskModel" -> {<<"priority", 3>>, <<"priority", 6>>}

AssignField ==
  /\ built.model \in {"TimeModel", "TaskModel"}
  /\ built.ok
  /\ \E a \in Assignments(built.model) :
       built' = [built EXCEPT !.value = SetAttr(@, a[1], a[2])]
  /\ UNCHANGED <<store, instance, last, nops, call, clock, rebuilt, crashed>>

NextModels ==
  \/ ConstructTimeModel
  \/ ConstructRecurrenceModel
  \/ ConstructNotificationModel
  \/ ConstructTaskModel
  \/ ConstructActivityCategoryModel
  \/ ConstructUserProfileModel
  \/ ConstructDailyScheduleModel
  \/ ConstructTaskResponseModel
  \/ ConstructScheduleStatsModel
  \/ RoundTripTaskModel
  \/ AssignField

SpecModels == InitModels /\ [][NextModels]_vars

----------------------------------------------------------------------------
(* Properties of the schema manager, checked under Spec *)

Ids(rows) == {r.id : r \in rows}

\* the rows of db that user u owns, directly (user_id = u) or through a routine,
\* task or category that u owns; each as <<table, row>>
OwnedRows(db, u) ==
  LET routines == {r \in db.rows["routines"] : r.user_id = u}
      tasks == {r \in db.rows["tasks"] : r.user_id = u \/ r.routine_id \in Ids(routines)}
      reminders == {r \in db.rows["reminders"] : r.user_id = u \/ r.task_id \in Ids(tasks)}
      logs == {r \in db.rows["routine_logs"] :
                 r.user_id = u \/ r.routine_id \in Ids(routines)}
      prefs == {r \in db.rows["user_preferences"] : r.user_id = u}
      cats == {r \in db.rows["task_categories"] : r.user_id = u}
      maps == {r \in db.rows["task_category_mapping"] :
                 r.task_id \in Ids(tasks) \/ r.category_id \in Ids(cats)}
  IN {<<"routines", r>> : r \in routines} \cup {<<"tasks", r>> : r \in tasks}
       \cup {<<"reminders", r>> : r \in reminders} \cup {<<"routine_logs", r>> : r \in logs}
       \cup {<<"user_preferences", r>> : r \in prefs}
       \cup {<<"task_categories", r>> : r \in cats}
       \cup {<<"task_category_mapping", r>> : r \in maps}

AllRows(db) == UNION {{<<t, r>> : r \in db.rows[t]} : t \in RequiredTables}

WriteOps == {"execute_insert", "execute_update", "execute_delete"}

\* C1: when execute_delete removes a user row, then in the committed store no
\* routine, task, reminder, routine log, preferences row, category or mapping
\* that the user owned (directly or transitively) remains.
C1_DeleteUserCascades ==
  [][(/\ last'.op = "execute_delete"
      /\ last'.outcome = "returned"
      /\ last'.stmt.kind = "DELETE"
      /\ last'.stmt.table = "users"
      /\ last'.value >= 1)
     => \A r \in store.rows["users"] \ store'.rows["users"] :
          OwnedRows(store, r.id) \cap AllRows(store') = {}]_vars

\* C2: a write statement that raises leaves the store as it was before the call,
\* and an INSERT of a task whose routine_id references no existing routine
\* raises and adds no row to tasks.
C2_FailedWriteLeavesStore ==
  [][/\ (last'.op \in WriteOps /\ last'.outcome = "raised" /\ IsException(last'.thrown))
          => store' = store
     /\ (/\ last'.op = "execute_insert"
         /\ last'.stmt.kind = "INSERT"
         /\ last'.stmt.table = "tasks"
         /\ last'.stmt.vals.routine_id \notin RowIds(store, "routines"))
          => (last'.outcome = "raised" /\ store'.rows["tasks"] = store.rows["tasks"])]_vars

\* the initialization that has just run found no file and created the schema
CreatedNewStore(before, after) ==
  ~before.exists /\ after.op = "init_database" /\ after.outcome = "returned"

\* C3 (as stated): after initialization of a new store the table names read
\* from the catalogue are exactly the eight required names.
C3_ExactlyEightTables ==
  [][CreatedNewStore(store, last') => ExistingTables(store') = RequiredTables]_vars

\* C3 (amended): after initialization of a new store the table names read from
\* the catalogue are the eight required names, none missing, and one more:
\* sqlite_sequence, which SQLite creates for the AUTOINCREMENT columns.
C3_EightTablesAndSequence ==
  [][CreatedNewStore(store, last')
       => ExistingTables(store') = RequiredTables \cup {SqliteSequence}]_vars

C3_Witness ==
  /\ last.op = "init_database"
  /\ last.calls = CreateSchemaCalls(1)
  /\ MissingTables(store) = {}

\* C4: re-initializing against an existing store that has all eight tables
\* changes nothing: same tables, same rows in every table.
C4_ReinitIsNoOp ==
  [][(store.exists /\ MissingTables(store) = {} /\ last'.op = "init_database")
       => store' = store]_vars

\* a second initialization in a row, on a store that holds rows
C4_Witness ==
  /\ last.op = "init_database"
  /\ nops = 2
  /\ store.rows["tasks"] # {}

\* the initialization that has just run took the verify path and ran create_schema
RepairRan == last.op = "init_database" /\ \E i \in 1..Len(last.calls) : last.calls[i].conn = 2

\* C5: initializing against an existing store with some required tables missing
\* ends with all eight tables present, and every table that existed before keeps
\* its rows (and its AUTOINCREMENT counter and indexes): nothing is dropped or altered.
C5_RepairKeepsExisting ==
  [][(/\ store.exists /\ MissingTables(store) # {}
      /\ last'.op = "init_database" /\ last'.outcome = "returned")
       => /\ RequiredTables \subseteq store'.tables
          /\ store.tables \subseteq store'.tables
          /\ store.indexes \subseteq store'.indexes
          /\ \A t \in store.tables \cap RequiredTables :
               /\ store'.rows[t] = store.rows[t]
               /\ t \in AutoincrementTables => store'.seq[t] = store.seq[t]]_vars

\* a repair has run on a store that held rows
C5_Witness == RepairRan /\ store.rows["routines"] # {} /\ store.rows["tasks"] = {}

CallsOn(calls, c) == SelectSeq(calls, LAMBDA x : x.conn = c)

ConnIds(calls) == {calls[i].conn : i \in 1..Len(calls)}

\* opened once, closed once, and closed last
OpenedAndClosed(cs) ==
  /\ Len(cs) >= 2
  /\ cs[1].call = "connect"
  /\ cs[Len(cs)].call = "close"
  /\ \A i \in 2..(Len(cs) - 1) : cs[i].call \notin {"connect", "close"}

CommittedThenClosed(cs) ==
  /\ OpenedAndClosed(cs)
  /\ cs[Len(cs) - 1].call = "commit"
  /\ \A i \in 1..Len(cs) : cs[i].call # "rollback"

RolledBackThenClosed(cs) == OpenedAndClosed(cs) /\ cs[Len(cs) - 1].call = "rollback"

\* C6: every use of get_connection ends in one of two ways: the operation
\* returns and each connection was committed, then closed; or it raises, the
\* transaction is rolled back (by conn.rollback() for every Exception, by the
\* close for an interrupt), the exception the caller sees is the one that was
\* raised, and the connection is closed.  No connection is left open.
C6_ScopedConnection ==
  last.op \notin {"none", "close", "__exit__"} =>
    /\ last.outcome \in {"returned", "raised"}
    /\ \A c \in ConnIds(last.calls) : OpenedAndClosed(CallsOn(last.calls, c))
    /\ last.outcome = "returned" =>
         /\ last.txn = "committed"
         /\ last.exc = NoExc
         /\ \A c \in ConnIds(last.calls) : CommittedThenClosed(CallsOn(last.calls, c))
    /\ last.outcome = "raised" =>
         /\ last.txn = "rolledback"
         /\ last.exc # NoExc
         /\ last.exc = last.thrown
         /\ IsException(last.exc) =>
              \A c \in ConnIds(last.calls) : RolledBackThenClosed(CallsOn(last.calls, c))

\* conn.commit() failed: rollback, re-raise, close
C6_Witness ==
  /\ last.op = "execute_insert"
  /\ last.outcome = "raised"
  /\ last.calls = <<Call(1, "connect"), Call(1, "commit"), Call(1, "rollback"), Call(1, "close")>>

\* C7: execute_insert returns the id of the row the statement added, and
\* execute_update / execute_delete return the number of rows the statement
\* changed / removed; the change is in the committed store when the value is returned.
C7_ReturnValues ==
  [][/\ (last'.op = "execute_insert" /\ last'.outcome = "returned"
           /\ last'.stmt.kind = "INSERT")
          => LET t == last'.stmt.table
             IN /\ last'.value \notin RowIds(store, t)
                /\ \E r \in store'.rows[t] :
                     /\ r.id = last'.value
                     /\ \A c \in Columns(t) : r[c] = last'.stmt.vals[c]
                     /\ store'.rows[t] = store.rows[t] \cup {r}
     /\ (last'.op = "execute_update" /\ last'.outcome = "returned"
           /\ last'.stmt.kind = "UPDATE")
          => LET t == last'.stmt.table
                 hit == Matching(store, t, last'.stmt.where)
             IN /\ last'.value = Cardinality(hit)
                /\ \A r \in hit :
                     [r EXCEPT ![last'.stmt.set.col] = last'.stmt.set.val] \in store'.rows[t]
                /\ store.rows[t] \ hit \subseteq store'.rows[t]
     /\ (last'.op = "execute_delete" /\ last'.outcome = "returned"
           /\ last'.stmt.kind = "DELETE")
          => LET t == last'.stmt.table
             IN /\ last'.value = Cardinality(store.rows[t] \ store'.rows[t])
                /\ store.rows[t] \ store'.rows[t] = Matching(store, t, last'.stmt.where)
                /\ store'.rows[t] \subseteq store.rows[t]]_vars

\* a third task was inserted and its id returned
C7_Witness ==
  /\ last.op = "execute_insert"
  /\ last.outcome = "returned"
  /\ last.stmt.kind = "INSERT"
  /\ last.stmt.table = "tasks"
  /\ last.value = 3

----------------------------------------------------------------------------
(* Properties of the validation layer, checked under SpecModels *)

InRange(opt, lo, hi) == Supplied(opt) /\ lo <= The(opt) /\ The(opt) <= hi

AllIn(opt, lo, hi) ==
  Supplied(opt) => \A i \in 1..Len(The(opt)) : lo <= The(opt)[i] /\ The(opt)[i] <= hi

\* C8: constructing a TimeModel succeeds iff 0 <= hour <= 23, 0 <= minute <= 59
\* and 0 <= second <= 59 (second is 0 when not given), and each field is
\* checked on its own: a field is reported out of range iff it is given and
\* outside its range, whatever the other fields are.
C8_TimeModelRanges ==
  built.model = "TimeModel" =>
    LET a == call.args
    IN /\ built.ok <=> /\ InRange(a.hour, 0, 23)
                       /\ InRange(a.minute, 0, 59)
                       /\ (Supplied(a.second) => InRange(a.second, 0, 59))
       /\ <<"hour", OutOfRange>> \in built.errors
            <=> (Supplied(a.hour) /\ ~InRange(a.hour, 0, 23))
       /\ <<"minute", OutOfRange>> \in built.errors
            <=> (Supplied(a.minute) /\ ~InRange(a.minute, 0, 59))
       /\ <<"second", OutOfRange>> \in built.errors
            <=> (Supplied(a.second) /\ ~InRange(a.second, 0, 59))

\* 23:59:59 was constructed
C8_Witness ==
  /\ built.model = "TimeModel"
  /\ built.ok
  /\ built.value = [hour |-> 23, minute |-> 59, second |-> 59]

\* a supplied time whose three fields are all in range
ValidTimeArgs(opt) ==
  /\ Supplied(opt)
  /\ InRange(The(opt).hour, 0, 23)
  /\ InRange(The(opt).minute, 0, 59)
  /\ (Supplied(The(opt).second) => InRange(The(opt).second, 0, 59))

MinuteOfDay(t) == The(t.hour) * 60 + The(t.minute)

NotOneOf(opt, S) == Supplied(opt) /\ The(opt) \notin S

LessThan(opt, lo) == Supplied(opt) /\ The(opt) < lo

\* the fields of the arguments of a recurrence that break a declared constraint
RecurrenceFailing(a) ==
  {f \in {"type"} : NotOneOf(a.type, {"none", "daily", "weekly", "biweekly", "monthly", "yearly"})}
    \cup {f \in {"frequency"} : LessThan(a.frequency, 1)}
    \cup {f \in {"days_of_week"} : ~AllIn(a.days_of_week, 0, 6)}
    \cup {f \in {"days_of_month"} : ~AllIn(a.days_of_month, 1, 31)}
    \cup {f \in {"end_date"} : NotOneOf(a.end_date, Datetimes)}

\* the fields of the arguments of a notification that break a declared constraint
NotificationFailing(a) ==
  {f \in {"type"} : NotOneOf(a.type, {"reminder", "alert", "info", "warning"})}
    \cup {f \in {"time_before_minutes"} : LessThan(a.time_before_minutes, 0)}
    \cup {f \in {"created_at", "updated_at"} : NotOneOf(a[f], Datetimes)}

\* the fields of the arguments of a task, other than title, priority and the
\* two times, that break a declared constraint
TaskOtherFieldsFailing(a) ==
  {f \in {"category"} :
     NotOneOf(a.category, {"work", "health", "personal", "learning", "exercise",
                           "meditation", "leisure", "social", "other"})}
    \cup {f \in {"status"} :
            NotOneOf(a.status, {"pending", "in_progress", "completed", "cancelled", "paused"})}
    \cup {f \in {"duration_minutes"} : LessThan(a.duration_minutes, 0)}
    \cup {f \in {"due_date", "completion_date", "created_at", "updated_at"} :
            NotOneOf(a[f], Datetimes)}
    \cup {f \in {"recurrence"} : Supplied(a.recurrence) /\ RecurrenceFailing(The(a.recurrence)) # {}}
    \cup {f \in {"notifications"} :
            /\ Supplied(a.notifications)
            /\ \E i \in 1..Len(The(a.notifications)) :
                 NotificationFailing(The(a.notifications)[i]) # {}}

EndRuleFailed == <<"end_time", EndBeforeStartError>> \in built.errors

RecurrenceRangesHold(a) ==
  /\ (Supplied(a.frequency) => The(a.frequency) >= 1)
  /\ AllIn(a.days_of_week, 0, 6)
  /\ AllIn(a.days_of_month, 1, 31)

\* C10 (as stated): constructing a RecurrenceModel succeeds iff frequency >= 1,
\* every days_of_week value is in 0..6 and every days_of_month value is in 1..31.
C10_RecurrenceRangesOnly ==
  built.model = "RecurrenceModel" => (built.ok <=> RecurrenceRangesHold(call.args))

\* C10 (amended): constructing a RecurrenceModel whose type, when given, is one
\* of the six recurrence types and whose end_date, when given, is a datetime
\* succeeds iff frequency >= 1, every days_of_week value is in 0..6 and every
\* days_of_month value is in 1..31; with any other type or end_date it fails.
C10_RecurrenceRanges ==
  built.model = "RecurrenceModel" =>
    LET a == call.args
        typeValid == Supplied(a.type) =>
                       The(a.type) \in {"none", "daily", "weekly", "biweekly", "monthly", "yearly"}
        endValid == Supplied(a.end_date) => The(a.end_date) \in Datetimes
    IN built.ok <=> (typeValid /\ endValid /\ RecurrenceRangesHold(a))

\* days_of_week = [0, 6] was accepted
C10_Witness ==
  /\ built.model = "RecurrenceModel"
  /\ built.ok
  /\ built.value.days_of_week = {<<0, 6>>}

TimeRecordValid(t) == t.hour \in 0..23 /\ t.minute \in 0..59 /\ t.second \in 0..59

RecurrenceRecordValid(r) ==
  /\ r.type \in {"none", "daily", "weekly", "biweekly", "monthly", "yearly"}
  /\ r.frequency >= 1
  /\ AllIn(r.days_of_week, 0, 6)
  /\ AllIn(r.days_of_month, 1, 31)

NotificationRecordValid(n) ==
  /\ n.type \in {"reminder", "alert", "info", "warning"}
  /\ n.time_before_minutes >= 0

\* a task record that satisfies every declared constraint of TaskModel
TaskRecordValid(v) ==
  /\ Len(v.title) \in 1..255
  /\ v.category \in {"work", "health", "personal", "learning", "exercise", "meditation",
                      "leisure", "social", "other"}
  /\ v.status \in {"pending", "in_progress", "completed", "cancelled", "paused"}
  /\ v.priority \in 0..5
  /\ \A t \in v.start_time \cup v.end_time : TimeRecordValid(t)
  /\ \A st \in v.start_time, en \in v.end_time :
       en.hour * 60 + en.minute >= st.hour * 60 + st.minute
  /\ \A d \in v.duration_minutes : d >= 0
  /\ RecurrenceRecordValid(v.recurrence)
  /\ \A i \in 1..Len(v.notifications) : NotificationRecordValid(v.notifications[i])

\* C11: for every valid task record, constructing a TaskModel from the
\* record's dict() (nested time, recurrence and notification records converted
\* recursively) succeeds and gives a record equal to the original in every field.
C11_RoundTrip ==
  (rebuilt.model = "TaskModel" /\ TaskRecordValid(rebuilt.of))
    => (rebuilt.result.ok /\ rebuilt.result.value = rebuilt.of)

\* a task with times, a weekly recurrence, a notification and timestamps taken
\* from the clock was rebuilt at a later instant
C11_Witness ==
  /\ rebuilt.model = "TaskModel"
  /\ rebuilt.result.ok
  /\ rebuilt.of.start_time # {} /\ rebuilt.of.end_time # {}
  /\ rebuilt.of.recurrence.days_of_week = {<<0, 6>>}
  /\ Len(rebuilt.of.notifications) = 1
  /\ rebuilt.of.created_at = UtcNow(1)
  /\ rebuilt.result.value.created_at = UtcNow(1)

Unsupplied(a, fields) == {f \in fields : ~Supplied(a[f])}

Negative(a, fields) == {f \in fields : LessThan(a[f], 0)}

NotDatetime(a, fields) == {f \in fields : NotOneOf(a[f], Datetimes)}

BadLengthOf(a, fields) == {f \in fields : Supplied(a[f]) /\ Len(The(a[f])) \notin 1..255}

NotPercentage(a, fields) == {f \in fields : Supplied(a[f]) /\ The(a[f]) \notin 0..100}

\* the fields of the arguments of each record type that are required and not
\* supplied, or supplied with a value that breaks the field's declared
\* constraint (for end_time also the end-before-start rule)
TimeFailing(a) ==
  Unsupplied(a, {"hour", "minute"})
    \cup {f \in {"hour"} : Supplied(a.hour) /\ The(a.hour) \notin 0..23}
    \cup {f \in {"minute", "second"} : Supplied(a[f]) /\ The(a[f]) \notin 0..59}

TaskFailing(a) ==
  Unsupplied(a, {"title"})
    \cup BadLengthOf(a, {"title"})
    \cup {f \in {"priority"} : Supplied(a.priority) /\ The(a.priority) \notin 0..5}
    \cup {f \in {"start_time", "end_time"} : Supplied(a[f]) /\ TimeFailing(The(a[f])) # {}}
    \cup {f \in {"end_time"} :
            /\ ValidTimeArgs(a.start_time) /\ ValidTimeArgs(a.end_time)
            /\ MinuteOfDay(The(a.end_time)) < MinuteOfDay(The(a.start_time))}
    \cup TaskOtherFieldsFailing(a)

CategoryFailing(a) ==
  Unsupplied(a, {"name"})
    \cup {f \in {"name"} :
            NotOneOf(a.name, {"work", "health", "personal", "learning", "exercise",
                              "meditation", "leisure", "social", "other"})}

UserProfileFailing(a) ==
  Unsupplied(a, {"username", "email"})
    \cup BadLengthOf(a, {"username"})
    \cup Negative(a, {"total_tasks", "completed_tasks", "streak_days"})
    \cup NotDatetime(a, {"last_login", "created_at", "updated_at"})

DailyScheduleFailing(a) ==
  Unsupplied(a, {"user_id", "date"})
    \cup NotDatetime(a, {"date", "created_at", "updated_at"})
    \cup {f \in {"tasks"} :
            Supplied(a.tasks) /\ \E i \in 1..Len(The(a.tasks)) : TaskFailing(The(a.tasks)[i]) # {}}
    \cup Negative(a, {"total_duration_minutes", "completed_tasks_count", "pending_tasks_count"})
    \cup NotPercentage(a, {"completion_percentage"})

TaskResponseFailing(a) ==
  Unsupplied(a, {"success", "message"})
    \cup {f \in {"data"} : Supplied(a.data) /\ TaskFailing(The(a.data)) # {}}
    \cup NotDatetime(a, {"timestamp"})

ScheduleStatsFailing(a) ==
  Unsupplied(a, {"user_id", "period_start", "period_end"})
    \cup NotDatetime(a, {"period_start", "period_end", "created_at", "updated_at"})
    \cup Negative(a, {"total_tasks", "completed_tasks", "cancelled_tasks", "pending_tasks",
                      "total_hours_logged", "average_daily_tasks", "longest_streak",
                      "current_streak"})
    \cup NotPercentage(a, {"completion_rate"})

FailingFields(c) ==
  CASE c.model = "TimeModel" -> TimeFailing(c.args)
    [] c.model = "RecurrenceModel" -> RecurrenceFailing(c.args)
    [] c.model = "NotificationModel" -> NotificationFailing(c.args)
    [] c.model = "ActivityCategoryModel" -> CategoryFailing(c.args)
    [] c.model = "TaskModel" -> TaskFailing(c.args)
    [] c.model = "UserProfileModel" -> UserProfileFailing(c.args)
    [] c.model = "DailyScheduleModel" -> DailyScheduleFailing(c.args)
    [] c.model = "TaskResponseModel" -> TaskResponseFailing(c.args)
    [] c.model = "ScheduleStatsModel" -> ScheduleStatsFailing(c.args)

\* C12: for every record type, a construction in which some supplied field
\* breaks its declared range, length or membership constraint (or a required
\* field is missing) fails, the validation error names exactly the failing
\* fields, and no record is produced; a record is produced exactly when every
\* field passes.
C12_AllOrNothing ==
  built.model # "none" =>
    /\ built.model = call.model
    /\ {e[1] : e \in built.errors} = FailingFields(call)
    /\ built.ok <=> FailingFields(call) = {}
    /\ built.ok <=> built.value # NoValue

\* a daily schedule whose only failing field is completion_percentage = 101
\* was rejected, naming that field
C12_Witness ==
  /\ built.model = "DailyScheduleModel"
  /\ call.args.completion_percentage = {101}
  /\ built.errors = {<<"completion_percentage", OutOfRange>>}
  /\ built.value = NoValue

\* C14: once a record has been constructed no operation changes its field
\* values, so every existing time-of-day record and task record satisfies all
\* of its declared constraints in every reachable state.
C14_RecordsImmutable ==
  /\ (built.model = "TimeModel" /\ built.ok) =>
       (built.value = TimeModel(call.args).value /\ TimeRecordValid(built.value))
  /\ (built.model = "TaskModel" /\ built.ok) =>
       (built.value = TaskModel(call.args, UtcNow(1)).value /\ TaskRecordValid(built.value))

----------------------------------------------------------------------------
(* Further properties of the schema manager, checked under Spec *)

\* the keys named by the uniqueness rules: category name within a user, one
\* preferences row per user, username, email
ClaimedKeys(t) ==
  CASE t = "task_categories" -> {{"user_id", "name"}}
    [] t = "user_preferences" -> {{"user_id"}}
    [] t = "users" -> {{"username"}, {"email"}}
    [] OTHER -> {}

SameKey(r1, r2, k) == \A c \in k : r1[c] = r2[c]

KeysUnique(db) ==
  \A t \in RequiredTables : \A k \in ClaimedKeys(t) :
    \A r1 \in db.rows[t], r2 \in db.rows[t] : SameKey(r1, r2, k) => r1 = r2

\* the INSERT would add a row that has a key of an existing row
InsertClashes(db, stmt) ==
  /\ stmt.kind = "INSERT"
  /\ \E k \in ClaimedKeys(stmt.table) : \E r \in db.rows[stmt.table] :
       SameKey(r, stmt.vals, k)

\* the UPDATE would leave two rows with the same key
UpdateClashes(db, stmt) ==
  /\ stmt.kind = "UPDATE"
  /\ LET t == stmt.table
         after == {IF r[stmt.where.col] = stmt.where.val
                     THEN [r EXCEPT ![stmt.set.col] = stmt.set.val] ELSE r : r \in db.rows[t]}
     IN \E k \in ClaimedKeys(t) :
          \/ \E r1 \in after, r2 \in after : r1 # r2 /\ SameKey(r1, r2, k)
          \/ Cardinality(after) < Cardinality(db.rows[t])

IndexedColumns(db) == {Indexes[i] : i \in db.indexes}

\* C15: the index set created by the initialization of a new store has an
\* index on every foreign-key column of the eight tables, and on tasks.status,
\* tasks.scheduled_date, reminders.is_sent and routine_logs.execution_date.
C15_IndexPerForeignKey ==
  [][(~store.exists /\ last'.op = "init_database" /\ last'.outcome = "returned")
       => /\ \A t \in RequiredTables : \A fk \in ForeignKeys(t) :
               <<t, fk[1]>> \in IndexedColumns(store')
          /\ {<<"tasks", "status">>, <<"tasks", "scheduled_date">>,
               <<"reminders", "is_sent">>, <<"routine_logs", "execution_date">>}
                \subseteq IndexedColumns(store')]_vars

StatementOps == {"execute_query", "execute_insert", "execute_update", "execute_delete"}

OwnerMismatch(db) ==
  \/ \E t \in db.rows["tasks"], r \in db.rows["routines"] :
       t.routine_id = r.id /\ t.user_id # r.user_id
  \/ \E m \in db.rows["reminders"], t \in db.rows["tasks"] :
       m.task_id = t.id /\ m.user_id # t.user_id

\* the parent table of a child row that carries an owner of its own
ParentOf(t) == IF t = "tasks" THEN <<"routine_id", "routines">> ELSE <<"task_id", "tasks">>

\* the INSERT adds a task (reminder) for an existing routine (task) under
\* another user than the parent's
InsertMismatches(db, stmt) ==
  /\ stmt.kind = "INSERT"
  /\ stmt.table \in {"tasks", "reminders"}
  /\ stmt.table \in db.tables
  /\ stmt.vals.user_id # Null
  /\ \E q \in db.rows[ParentOf(stmt.table)[2]] :
       q.id = stmt.vals[ParentOf(stmt.table)[1]] /\ q.user_id # stmt.vals.user_id

\* the UPDATE gives an existing task (reminder) another user than its parent's
UpdateMismatches(db, stmt) ==
  /\ stmt.kind = "UPDATE"
  /\ stmt.table \in {"tasks", "reminders"}
  /\ stmt.set.col = "user_id"
  /\ stmt.set.val # Null
  /\ \E r \in db.rows[stmt.table], q \in db.rows[ParentOf(stmt.table)[2]] :
       /\ r[stmt.where.col] = stmt.where.val
       /\ q.id = r[ParentOf(stmt.table)[1]]
       /\ q.user_id # stmt.set.val

\* C17: the schema does not enforce that a child row has the owner of its
\* parent: an INSERT or UPDATE that gives a task another user_id than its
\* routine's (or a reminder another than its task's) is never rejected as a
\* constraint violation, and when it returns the store holds the mismatch.
C17_OwnerMismatchAccepted ==
  [][(InsertMismatches(store, last'.stmt) \/ UpdateMismatches(store, last'.stmt))
       => /\ last'.exc # IntegrityError
          /\ last'.outcome = "returned" => OwnerMismatch(store')]_vars

\* task 1 of routine 1 (user 1) was given to user 2 by a successful update
C17_Witness ==
  /\ last.op = "execute_update"
  /\ last.outcome = "returned"
  /\ last.stmt = Update("tasks", "user_id", 2, "id", 1)
  /\ [id |-> 1, routine_id |-> 1, user_id |-> 2] \in store.rows["tasks"]
  /\ [id |-> 1, user_id |-> 1] \in store.rows["routines"]

\* the rows of table t that statement stmt selects, in db
Selected(db, stmt) == {r \in db.rows[stmt.table] : r[stmt.where.col] = stmt.where.val}

\* what a statement that has run and been committed does to the store, told
\* from the statement alone
CommittedEffect(before, after, stmt) ==
  LET t == stmt.table
      others == \A u \in RequiredTables \ {t} : after.rows[u] = before.rows[u]
  IN CASE stmt.kind = "INSERT" ->
            /\ others
            /\ \E r \in after.rows[t] :
                 /\ r.id \notin RowIds(before, t)
                 /\ \A c \in Columns(t) : r[c] = stmt.vals[c]
                 /\ after.rows[t] = before.rows[t] \cup {r}
       [] stmt.kind = "DELETE" ->
            others /\ after.rows[t] = before.rows[t] \ Selected(before, stmt)
       [] stmt.kind = "UPDATE" ->
            /\ others
            /\ after.rows[t] =
                 (before.rows[t] \ Selected(before, stmt))
                   \cup {[r EXCEPT ![stmt.set.col] = stmt.set.val] : r \in Selected(before, stmt)}
       [] stmt.kind = "DROP" ->
            others /\ t \notin after.tables /\ after.rows[t] = {}
       [] stmt.kind = "SELECT" -> after = before

\* C18: whichever of execute_query, execute_insert, execute_update and
\* execute_delete a statement is passed to, it runs once on one connection of
\* the operation's own; when the operation returns, the statement's effect is
\* in the committed store and the connection was committed then closed
\* (also for a write passed to execute_query); when it raises, an INSERT,
\* UPDATE or DELETE has left the store unchanged.  The operations differ in
\* the value returned: the fetched rows, the last row id, the row count.
C18_SameEffect ==
  [][last'.op \in StatementOps
       => /\ ConnIds(last'.calls) = {1}
          /\ last'.outcome = "returned"
               => /\ CommittedEffect(store, store', last'.stmt)
                  /\ last'.calls = <<Call(1, "connect"), Call(1, "commit"), Call(1, "close")>>
          /\ (last'.outcome = "raised" /\ last'.stmt.kind \in {"INSERT", "UPDATE", "DELETE"})
               => store' = store
          /\ (last'.outcome = "returned" /\ last'.op = "execute_query")
               => /\ last'.value = 0
                  /\ last'.rows = IF last'.stmt.kind = "SELECT"
                                    THEN Selected(store, last'.stmt) ELSE {}
          /\ (last'.outcome = "returned" /\ last'.op # "execute_query") => last'.rows = {}]_vars

\* an INSERT passed to execute_query was committed
C18_Witness ==
  /\ last.op = "execute_query"
  /\ last.stmt = Insert("tasks", [routine_id |-> 1, user_id |-> 1])
  /\ last.outcome = "returned"
  /\ [id |-> 3, routine_id |-> 1, user_id |-> 1] \in store.rows["tasks"]

\* the connection calls of an initialization that took the verify path: the
\* connection of _verify_schema comes first (create_schema alone starts with
\* its own commit after the connect)
TookVerifyPath(calls) ==
  /\ calls # CreateSchemaCalls(1)
  /\ calls[1] = Call(1, "connect")
  /\ CommittedThenClosed(CallsOn(calls, 1))
  /\ \A c \in ConnIds(calls) \ {1} : CallsOn(calls, c) = CreateSchemaCalls(c)

\* C19: when create_schema fails at some statement during the initialization
\* of a new store, the file is left in place with the tables created before
\* that statement and no others; and every later initialization that returns
\* takes the verify path and ends with all eight tables present.
C19_RecoversFromFailedInit ==
  /\ [][(~store.exists /\ last'.op = "init_database" /\ last'.outcome = "raised")
          => /\ store'.exists
             /\ \E k \in 0..Len(TableOrder) :
                  store'.tables \cap RequiredTables = {TableOrder[i] : i \in 1..k}
             /\ AllRows(store') = {}]_vars
  /\ [][(crashed /\ last'.op = "init_database" /\ last'.outcome = "returned")
          => /\ TookVerifyPath(last'.calls)
             /\ RequiredTables \subseteq store'.tables]_vars

\* an initialization failed on a new store before the last table was created;
\* the next one ran create_schema again from the verify path and completed the schema
C19_Witness ==
  /\ crashed
  /\ nops = 2
  /\ last.op = "init_database"
  /\ last.outcome = "returned"
  /\ RepairRan
  /\ MissingTables(store) = {}
  /\ AllRows(store) = {}

====
